---- MODULE Spec2Model ----
(***************************************************************************)
(* Verification model of the bluesky-bot webhook server (main.ts).         *)
(*                                                                         *)
(* Strings are sequences of one-character strings, so that split, slice,   *)
(* trim, startsWith and the regular expressions are computed character by  *)
(* character as the source computes them.  Two non-ASCII characters have   *)
(* names: "emdash" and "ellipsis"; the ASCII table names three more,       *)
(* "dquote", "backslash" and "backtick".  null and undefined are the       *)
(* one-element tuples Null and Undefined, which no string equals.          *)
(***************************************************************************)
EXTENDS Integers, Sequences, FiniteSets, TLC

Null == <<"null">>
Undefined == <<"undefined">>

\* ------------------------------------------------------------------------
\* Characters
\* ------------------------------------------------------------------------
AsciiChars ==
  <<
     " ", "!", "dquote", "#", "$", "%", "&", "'", "(", ")", "*", "+", ",", "-", ".", "/",
     "0", "1", "2", "3", "4", "5", "6", "7", "8", "9", ":", ";", "<", "=", ">", "?",
     "@", "A", "B", "C", "D", "E", "F", "G", "H", "I", "J", "K", "L", "M", "N", "O",
     "P", "Q", "R", "S", "T", "U", "V", "W", "X", "Y", "Z", "[", "backslash", "]", "^", "_",
     "backtick", "a", "b", "c", "d", "e", "f", "g", "h", "i", "j", "k", "l", "m", "n", "o",
     "p", "q", "r", "s", "t", "u", "v", "w", "x", "y", "z", "{", "|", "}", "~"
  >>

\* The code of each printable ASCII character: 32 for the space to 126.
AsciiCode ==
  [c \in {AsciiChars[i] : i \in 1..Len(AsciiChars)} |->
     31 + (CHOOSE i \in 1..Len(AsciiChars) : AsciiChars[i] = c)]

\* String.prototype.charCodeAt for the characters the model uses.
CharCode(c) ==
  CASE c = "\t" -> 9
    [] c = "\n" -> 10
    [] c = "\r" -> 13
    [] c = "emdash" -> 8212
    [] c = "ellipsis" -> 8230
    [] OTHER -> AsciiCode[c]

Digits == {"0", "1", "2", "3", "4", "5", "6", "7", "8", "9"}
NonZeroDigits == Digits \ {"0"}
Letters == {AsciiChars[i] : i \in 34..59} \cup {AsciiChars[i] : i \in 66..91}
WordChars == Letters \cup Digits \cup {"_"}
IdentChars == Letters \cup Digits \cup {"-"}
WhiteSpace == {" ", "\t", "\n", "\r"}
HexDigits == <<"0", "1", "2", "3", "4", "5", "6", "7", "8", "9", "a", "b", "c", "d", "e", "f">>

\* ------------------------------------------------------------------------
\* String primitives (JavaScript String methods)
\* ------------------------------------------------------------------------
\* An index of slice: a negative one counts from the end of the string, and
\* both kinds are clamped to 0..Len(s).
SliceIndex(s, i) ==
  IF i < 0 THEN (IF Len(s) + i < 0 THEN 0 ELSE Len(s) + i)
  ELSE IF i > Len(s) THEN Len(s) ELSE i

\* s.slice(from, to) with 0-based from (inclusive) and to (exclusive).
Slice(s, from, to) ==
  LET f == SliceIndex(s, from)
      t == SliceIndex(s, to)
  IN  IF f >= t THEN <<>> ELSE SubSeq(s, f + 1, t)

StartsWith(s, p) == Len(s) >= Len(p) /\ Slice(s, 0, Len(p)) = p

RECURSIVE TrimStart(_)
TrimStart(s) ==
  IF s # <<>> /\ Head(s) \in WhiteSpace THEN TrimStart(Tail(s)) ELSE s

RECURSIVE TrimEnd(_)
TrimEnd(s) ==
  IF s # <<>> /\ s[Len(s)] \in WhiteSpace THEN TrimEnd(Slice(s, 0, Len(s) - 1)) ELSE s

Trim(s) == TrimEnd(TrimStart(s))

\* The position of the k-th occurrence of the character sep in s.
SepAt(s, sep, k) ==
  CHOOSE i \in 1..Len(s) :
     s[i] = sep /\ Cardinality({j \in 1..(i - 1) : s[j] = sep}) = k - 1

\* s.split(sep) for a one-character separator: always at least one piece.
Split(s, sep) ==
  LET n == Cardinality({i \in 1..Len(s) : s[i] = sep})
  IN  [k \in 1..(n + 1) |->
         Slice(s, IF k = 1 THEN 0 ELSE SepAt(s, sep, k - 1),
                  IF k = n + 1 THEN Len(s) ELSE SepAt(s, sep, k) - 1)]

\* Array destructuring [a, b] = arr: a missing element is undefined.
At(arr, i) == IF i <= Len(arr) THEN arr[i] ELSE Undefined

RECURSIVE Concat(_)
Concat(parts) == IF parts = <<>> THEN <<>> ELSE Head(parts) \o Concat(Tail(parts))

\* s.includes(t)
Includes(s, t) ==
  \E i \in 0..(Len(s) - Len(t)) : Slice(s, i, i + Len(t)) = t

\* ------------------------------------------------------------------------
\* Bitwise operators on non-negative integers
\* ------------------------------------------------------------------------
RECURSIVE BitXor(_, _)
BitXor(a, b) ==
  IF a = b THEN 0
  ELSE (((a % 2) + (b % 2)) % 2) + 2 * BitXor(a \div 2, b \div 2)

RECURSIVE BitOr(_, _)
BitOr(a, b) ==
  IF a = 0 THEN b
  ELSE IF b = 0 THEN a
  ELSE (IF a % 2 = 1 \/ b % 2 = 1 THEN 1 ELSE 0) + 2 * BitOr(a \div 2, b \div 2)

\* ------------------------------------------------------------------------
\* Allowlist (main.ts 49-71)
\* ------------------------------------------------------------------------
\* REPO_ALLOWLIST.split(",").map(trim).filter(Boolean), as a Set.
AllowPatterns(allowlist) ==
  LET pieces == Split(allowlist, ",")
  IN  {Trim(pieces[i]) : i \in 1..Len(pieces)} \ {<<>>}

repoMatchPattern_OwnerOnly(pattern, repo) ==
  IF pattern = <<"*">> THEN TRUE
  ELSE LET po == At(Split(pattern, "/"), 1)
           ro == At(Split(repo, "/"), 1)
       IN  po = <<"*">> \/ po = ro

repoMatchPattern(pattern, repo) ==
  IF pattern = <<"*">> THEN TRUE
  ELSE LET p == Split(pattern, "/")
           r == Split(repo, "/")
           po == At(p, 1)
           pr == At(p, 2)
           ro == At(r, 1)
           rr == At(r, 2)
           ownerOk == po = <<"*">> \/ po = ro
           repoOk == pr = <<"*">> \/ pr = rr
       IN  ownerOk /\ repoOk

repoAllowed(patterns, repo) ==
  IF Cardinality(patterns) = 0 THEN TRUE
  ELSE \E p \in patterns : repoMatchPattern(p, repo)

\* ------------------------------------------------------------------------
\* HMAC and signature verification (main.ts 74-86, 131-141)
\* ------------------------------------------------------------------------
\* crypto.subtle.sign("HMAC", key, data) computes HMAC-SHA-256 (RFC 2104,
\* FIPS 180-4).  A 32-bit word is a pair <<high 16 bits, low 16 bits>>.
RECURSIVE BitAnd(_, _)
BitAnd(a, b) ==
  IF a = 0 \/ b = 0 THEN 0
  ELSE (IF a % 2 = 1 /\ b % 2 = 1 THEN 1 ELSE 0) + 2 * BitAnd(a \div 2, b \div 2)

RECURSIVE Pow(_, _)
Pow(b, e) == IF e = 0 THEN 1 ELSE b * Pow(b, e - 1)

WordXor(x, y) == <<BitXor(x[1], y[1]), BitXor(x[2], y[2])>>
WordAnd(x, y) == <<BitAnd(x[1], y[1]), BitAnd(x[2], y[2])>>
WordNot(x) == <<65535 - x[1], 65535 - x[2]>>

\* Addition modulo 2^32.
WordAdd(x, y) ==
  <<(x[1] + y[1] + ((x[2] + y[2]) \div 65536)) % 65536, (x[2] + y[2]) % 65536>>

\* Rotation to the right by n bits, 0 <= n < 32.
RotHalves(hi, lo, p, q) ==
  <<(hi \div p) + (lo % p) * q, (lo \div p) + (hi % p) * q>>

RotR(x, n) ==
  IF n % 16 = 0 THEN (IF n >= 16 THEN <<x[2], x[1]>> ELSE x)
  ELSE IF n >= 16 THEN RotHalves(x[2], x[1], Pow(2, n % 16), Pow(2, 16 - (n % 16)))
  ELSE RotHalves(x[1], x[2], Pow(2, n % 16), Pow(2, 16 - (n % 16)))

\* Shift to the right by n bits, 0 < n < 16.
ShRHalves(hi, lo, p, q) == <<hi \div p, (lo \div p) + (hi % p) * q>>

ShR(x, n) == ShRHalves(x[1], x[2], Pow(2, n), Pow(2, 16 - n))

\* The round constants and the initial hash value of SHA-256 (FIPS 180-4).
Sha256K ==
  <<
   <<17034, 12184>>, <<28983, 17553>>, <<46528, 64463>>, <<59829, 56229>>,
   <<14678, 49755>>, <<23025, 4593>>, <<37439, 33444>>, <<43804, 24277>>,
   <<55303, 43672>>, <<4739, 23297>>, <<9265, 34238>>, <<21772, 32195>>,
   <<29374, 23924>>, <<32990, 45566>>, <<39900, 1703>>, <<49563, 61812>>,
   <<58523, 27073>>, <<61374, 18310>>, <<4033, 40390>>, <<9228, 41420>>,
   <<11753, 11375>>, <<19060, 33962>>, <<23728, 43484>>, <<30457, 35034>>,
   <<38974, 20818>>, <<43057, 50797>>, <<45059, 10184>>, <<48985, 32711>>,
   <<50912, 3059>>, <<54695, 37191>>, <<1738, 25425>>, <<5161, 10599>>,
   <<10167, 2693>>, <<11803, 8504>>, <<19756, 28156>>, <<21304, 3347>>,
   <<25866, 29524>>, <<30314, 2747>>, <<33218, 51502>>, <<37490, 11397>>,
   <<41663, 59553>>, <<43034, 26187>>, <<49739, 35696>>, <<51052, 20899>>,
   <<53650, 59417>>, <<54937, 1572>>, <<62478, 13701>>, <<4202, 41072>>,
   <<6564, 49430>>, <<7735, 27656>>, <<10056, 30540>>, <<13488, 48309>>,
   <<14620, 3251>>, <<20184, 43594>>, <<23452, 51791>>, <<26670, 28659>>,
   <<29839, 33518>>, <<30885, 25455>>, <<33992, 30740>>, <<36039, 520>>,
   <<37054, 65530>>, <<42064, 27883>>, <<48889, 41975>>, <<50801, 30962>> >>

Sha256H0 ==
  <<
   <<27145, 58983>>, <<47975, 44677>>, <<15470, 62322>>, <<42319, 62778>>,
   <<20750, 21119>>, <<39685, 26764>>, <<8067, 55723>>, <<23520, 52505>> >>

SmallSigma0(x) == WordXor(WordXor(RotR(x, 7), RotR(x, 18)), ShR(x, 3))
SmallSigma1(x) == WordXor(WordXor(RotR(x, 17), RotR(x, 19)), ShR(x, 10))
BigSigma0(x) == WordXor(WordXor(RotR(x, 2), RotR(x, 13)), RotR(x, 22))
BigSigma1(x) == WordXor(WordXor(RotR(x, 6), RotR(x, 11)), RotR(x, 25))
Ch(x, y, z) == WordXor(WordAnd(x, y), WordAnd(WordNot(x), z))
Maj(x, y, z) == WordXor(WordXor(WordAnd(x, y), WordAnd(x, z)), WordAnd(y, z))

\* The message padded to a multiple of 64 bytes: the byte 128, zero bytes, and
\* the length in bits as 8 bytes.
Sha256Pad(bytes) ==
  bytes \o <<128>> \o [i \in 1..((119 - (Len(bytes) % 64)) % 64) |-> 0]
    \o <<0, 0, 0, 0, (Len(bytes) \div 2097152) % 256, (Len(bytes) \div 8192) % 256,
         (Len(bytes) \div 32) % 256, (Len(bytes) * 8) % 256>>

\* The 16 words of the k-th block (k from 0) of a padded message.
BlockWords(padded, k) ==
  [i \in 1..16 |->
     <<padded[64 * k + 4 * i - 3] * 256 + padded[64 * k + 4 * i - 2],
       padded[64 * k + 4 * i - 1] * 256 + padded[64 * k + 4 * i]>>]

\* The message schedule: 16 words extended to 64.
RECURSIVE Schedule(_)
Schedule(ws) ==
  IF Len(ws) = 64 THEN ws
  ELSE LET t == Len(ws) + 1
       IN  Schedule(Append(ws, WordAdd(WordAdd(SmallSigma1(ws[t - 2]), ws[t - 7]),
                                       WordAdd(SmallSigma0(ws[t - 15]), ws[t - 16]))))

\* The working variables after one round with the temporaries t1 and t2.
RoundStep(v, t1, t2) ==
  <<WordAdd(t1, t2), v[1], v[2], v[3], WordAdd(v[4], t1), v[5], v[6], v[7]>>

\* Rounds t..64 of the compression function on the 8 working variables v
\* with the 64 words ws of the schedule.
RECURSIVE Rounds(_, _, _)
Rounds(v, ws, t) ==
  IF t > Len(ws) \/ Len(v) # 8 THEN v
  ELSE Rounds(RoundStep(v, WordAdd(WordAdd(WordAdd(v[8], BigSigma1(v[5])),
                                            Ch(v[5], v[6], v[7])),
                                    WordAdd(Sha256K[t], ws[t])),
                          WordAdd(BigSigma0(v[1]), Maj(v[1], v[2], v[3]))),
              ws, t + 1)

AddWords(h, v) == [i \in 1..8 |-> WordAdd(h[i], v[i])]

\* The hash value after the blocks k.. of a padded message.
RECURSIVE Sha256Blocks(_, _, _)
Sha256Blocks(h, padded, k) ==
  IF 64 * k >= Len(padded) \/ Len(h) # 8 THEN h
  ELSE Sha256Blocks(AddWords(h, Rounds(h, Schedule(BlockWords(padded, k)), 1)),
                    padded, k + 1)

\* The 32 bytes of the 8 words of a hash value.
WordBytes(h) ==
  [i \in 1..32 |->
     IF i % 2 = 1 THEN h[((i - 1) \div 4) + 1][(((i - 1) % 4) \div 2) + 1] \div 256
     ELSE h[((i - 1) \div 4) + 1][(((i - 1) % 4) \div 2) + 1] % 256]

\* The 32 bytes of SHA-256(bytes).
Sha256(bytes) == WordBytes(Sha256Blocks(Sha256H0, Sha256Pad(bytes), 0))

\* HMAC (RFC 2104) with SHA-256: the 32 bytes of the signature under the
\* bytes of a key of any length.
HmacPad(k, pad) == [i \in 1..64 |-> BitXor(IF i <= Len(k) THEN k[i] ELSE 0, pad)]
HmacKeyed(k, data) == Sha256(HmacPad(k, 92) \o Sha256(HmacPad(k, 54) \o data))
Rfc2104(key, data) == HmacKeyed(IF Len(key) > 64 THEN Sha256(key) ELSE key, data)

\* The signatures of the keys and request bodies the specifications use, as
\* <<key bytes, body, Rfc2104(key bytes, body)>>.
KnownDigests ==
  <<
   <<<<>>, <<0>>,
     <<102, 32, 179, 31, 41, 36, 184, 192, 21, 71, 116, 95, 65, 130, 93, 50, 35, 54, 248, 62, 187, 19, 215, 35, 103, 135, 137, 213, 84, 216, 163, 239>>>>,
   <<<<>>, <<1>>,
     <<61, 122, 251, 102, 49, 36, 236, 191, 44, 149, 63, 134, 61, 79, 200, 121, 110, 235, 45, 55, 43, 100, 170, 213, 134, 151, 236, 82, 100, 100, 156, 219>>>>,
   <<<<>>, <<2>>,
     <<78, 231, 190, 12, 120, 114, 54, 12, 166, 116, 20, 96, 128, 129, 233, 189, 96, 253, 88, 10, 123, 189, 32, 151, 1, 210, 165, 160, 180, 49, 109, 13>>>>,
   <<<<>>, <<3>>,
     <<166, 215, 101, 72, 254, 142, 208, 112, 187, 144, 157, 153, 153, 154, 171, 49, 35, 234, 61, 228, 22, 162, 213, 139, 206, 251, 143, 134, 121, 98, 187, 134>>>>,
   <<<<>>, <<4>>,
     <<130, 139, 67, 219, 207, 10, 131, 155, 253, 194, 4, 87, 217, 158, 21, 36, 2, 189, 154, 22, 96, 129, 246, 234, 114, 41, 12, 180, 209, 126, 84, 153>>>>,
   <<<<>>, <<5>>,
     <<199, 5, 155, 166, 79, 4, 140, 213, 188, 201, 66, 24, 124, 234, 102, 0, 172, 16, 144, 147, 192, 162, 193, 81, 133, 55, 21, 149, 254, 96, 239, 107>>>>,
   <<<<>>, <<6>>,
     <<239, 119, 241, 157, 130, 60, 94, 181, 77, 74, 141, 50, 102, 53, 31, 72, 216, 35, 28, 158, 0, 185, 112, 174, 105, 104, 28, 58, 207, 124, 251, 250>>>>,
   <<<<>>, <<7>>,
     <<238, 146, 28, 28, 23, 194, 228, 243, 185, 253, 2, 88, 254, 244, 227, 71, 77, 176, 15, 21, 25, 43, 29, 93, 186, 21, 11, 105, 17, 211, 210, 139>>>>,
   <<<<>>, <<8>>,
     <<11, 74, 1, 28, 196, 102, 116, 5, 238, 151, 66, 127, 26, 143, 93, 219, 165, 137, 157, 44, 114, 147, 118, 54, 241, 0, 126, 182, 106, 205, 62, 134>>>>,
   <<<<>>, <<9>>,
     <<9, 96, 125, 120, 88, 241, 210, 29, 205, 100, 106, 55, 253, 133, 33, 229, 249, 113, 63, 163, 110, 9, 118, 178, 180, 239, 172, 249, 234, 180, 22, 94>>>>,
   <<<<>>, <<10>>,
     <<88, 99, 240, 81, 28, 74, 208, 40, 131, 117, 0, 179, 203, 65, 61, 151, 97, 39, 195, 213, 254, 249, 222, 144, 124, 124, 205, 21, 245, 163, 204, 240>>>>,
   <<<<>>, <<11>>,
     <<80, 226, 110, 191, 19, 204, 143, 106, 204, 143, 143, 70, 26, 41, 104, 172, 236, 199, 138, 120, 16, 201, 40, 106, 186, 101, 205, 103, 154, 202, 202, 117>>>>,
   <<<<>>, <<12>>,
     <<165, 16, 31, 45, 22, 250, 175, 128, 54, 139, 237, 121, 93, 252, 109, 87, 167, 164, 24, 201, 214, 186, 166, 162, 203, 61, 8, 176, 44, 219, 166, 205>>>>,
   <<<<>>, <<13>>,
     <<218, 120, 188, 59, 110, 43, 24, 102, 147, 155, 253, 123, 177, 64, 110, 175, 195, 65, 113, 85, 225, 200, 40, 175, 90, 245, 102, 105, 65, 92, 181, 144>>>>,
   <<<<>>, <<14>>,
     <<164, 178, 58, 169, 171, 186, 178, 157, 223, 115, 52, 60, 195, 180, 89, 239, 142, 54, 87, 223, 64, 146, 101, 205, 199, 237, 83, 216, 70, 4, 191, 28>>>>,
   <<<<>>, <<15>>,
     <<234, 250, 119, 133, 160, 53, 238, 63, 57, 32, 182, 30, 4, 69, 53, 180, 233, 173, 119, 215, 1, 204, 45, 117, 231, 46, 15, 122, 85, 19, 158, 64>>>>,
   <<<<>>, <<16>>,
     <<217, 240, 240, 98, 123, 227, 169, 120, 27, 221, 251, 32, 85, 98, 127, 215, 30, 188, 208, 22, 50, 132, 137, 196, 138, 108, 214, 34, 197, 249, 183, 227>>>>,
   <<<<>>, <<17>>,
     <<20, 251, 160, 82, 205, 153, 188, 106, 209, 141, 180, 112, 69, 73, 246, 141, 169, 117, 236, 167, 29, 118, 212, 79, 136, 210, 244, 88, 249, 200, 20, 174>>>>,
   <<<<>>, <<18>>,
     <<198, 13, 254, 211, 28, 31, 163, 99, 176, 49, 5, 157, 246, 120, 111, 32, 189, 241, 213, 24, 243, 123, 36, 248, 237, 71, 195, 123, 131, 178, 0, 108>>>>,
   <<<<>>, <<19>>,
     <<104, 35, 237, 56, 41, 227, 187, 4, 188, 211, 32, 72, 28, 175, 229, 3, 94, 100, 193, 111, 19, 96, 233, 204, 87, 102, 218, 224, 115, 18, 124, 134>>>>,
   <<<<>>, <<20>>,
     <<194, 161, 200, 27, 210, 123, 141, 129, 213, 133, 224, 98, 193, 147, 94, 8, 89, 113, 191, 166, 232, 100, 209, 26, 123, 26, 253, 191, 170, 192, 120, 39>>>>,
   <<<<>>, <<21>>,
     <<17, 130, 32, 177, 51, 255, 203, 253, 252, 252, 139, 20, 248, 72, 71, 234, 234, 138, 122, 36, 250, 244, 14, 166, 167, 213, 167, 188, 23, 242, 54, 185>>>>,
   <<<<>>, <<22>>,
     <<86, 234, 11, 60, 37, 241, 225, 10, 48, 94, 58, 58, 39, 12, 247, 76, 41, 138, 134, 240, 2, 122, 188, 97, 177, 18, 135, 179, 153, 140, 183, 16>>>>,
   <<<<>>, <<23>>,
     <<227, 111, 250, 99, 203, 219, 248, 157, 32, 95, 2, 199, 114, 42, 99, 238, 127, 216, 48, 8, 104, 5, 178, 128, 56, 245, 17, 162, 51, 107, 205, 33>>>>,
   <<<<>>, <<24>>,
     <<188, 251, 9, 44, 142, 70, 136, 38, 79, 188, 207, 223, 75, 244, 127, 90, 116, 17, 101, 151, 42, 188, 52, 163, 79, 115, 52, 236, 39, 215, 179, 65>>>>,
   <<<<>>, <<25>>,
     <<119, 38, 213, 152, 254, 4, 114, 220, 96, 24, 180, 219, 16, 97, 9, 219, 105, 27, 67, 57, 129, 113, 50, 159, 240, 64, 98, 77, 252, 161, 31, 208>>>>,
   <<<<>>, <<26>>,
     <<151, 46, 180, 2, 10, 32, 220, 189, 79, 104, 78, 174, 243, 152, 26, 177, 34, 196, 150, 248, 219, 106, 109, 229, 134, 5, 69, 149, 248, 121, 93, 230>>>>,
   <<<<>>, <<27>>,
     <<117, 47, 129, 244, 251, 92, 27, 12, 107, 146, 64, 201, 133, 1, 190, 222, 16, 47, 11, 21, 203, 78, 22, 1, 121, 191, 108, 235, 8, 105, 254, 102>>>>,
   <<<<>>, <<28>>,
     <<236, 114, 148, 137, 50, 107, 244, 230, 204, 78, 135, 193, 91, 192, 105, 180, 90, 237, 23, 191, 53, 188, 246, 137, 200, 236, 220, 208, 82, 131, 220, 16>>>>,
   <<<<>>, <<29>>,
     <<164, 124, 19, 225, 44, 153, 250, 108, 98, 169, 112, 190, 19, 157, 235, 222, 184, 204, 120, 208, 234, 67, 245, 217, 223, 6, 249, 216, 143, 176, 246, 161>>>>,
   <<<<>>, <<30>>,
     <<179, 195, 20, 26, 233, 78, 172, 139, 39, 23, 123, 119, 254, 95, 29, 243, 212, 35, 240, 51, 61, 94, 23, 64, 93, 139, 240, 38, 126, 198, 156, 101>>>>,
   <<<<>>, <<31>>,
     <<153, 1, 143, 241, 80, 17, 253, 1, 147, 52, 151, 225, 14, 188, 69, 48, 99, 207, 154, 235, 3, 68, 136, 58, 214, 123, 217, 231, 145, 71, 162, 34>>>>,
   <<<<>>, <<32>>,
     <<89, 241, 235, 59, 190, 161, 217, 51, 9, 142, 200, 142, 13, 228, 72, 100, 93, 0, 175, 244, 52, 165, 174, 0, 158, 159, 15, 25, 110, 242, 109, 237>>>>,
   <<<<>>, <<33>>,
     <<155, 119, 16, 197, 198, 52, 29, 83, 183, 228, 15, 241, 137, 148, 126, 198, 112, 247, 23, 167, 222, 171, 174, 227, 232, 200, 66, 20, 233, 61, 28, 111>>>>,
   <<<<>>, <<34>>,
     <<109, 82, 185, 223, 147, 53, 112, 7, 93, 77, 138, 157, 137, 129, 22, 133, 61, 29, 138, 190, 120, 26, 105, 29, 181, 139, 47, 183, 162, 229, 83, 2>>>>,
   <<<<>>, <<35>>,
     <<117, 169, 70, 171, 50, 78, 142, 231, 65, 46, 45, 221, 178, 161, 10, 24, 176, 238, 205, 224, 109, 149, 153, 55, 204, 53, 246, 35, 81, 162, 121, 144>>>>,
   <<<<>>, <<36>>,
     <<56, 55, 42, 12, 175, 20, 29, 208, 230, 80, 72, 134, 20, 176, 111, 112, 245, 175, 7, 137, 151, 0, 104, 20, 52, 100, 235, 191, 173, 91, 94, 66>>>>,
   <<<<>>, <<37>>,
     <<202, 53, 123, 147, 196, 53, 43, 84, 126, 24, 231, 183, 21, 74, 141, 37, 184, 65, 99, 201, 106, 127, 148, 195, 7, 35, 42, 27, 134, 167, 141, 210>>>>,
   <<<<>>, <<38>>,
     <<159, 125, 147, 3, 160, 44, 179, 166, 191, 171, 32, 202, 170, 244, 17, 220, 169, 105, 94, 9, 160, 18, 149, 6, 77, 143, 134, 183, 84, 85, 164, 183>>>>,
   <<<<>>, <<39>>,
     <<50, 244, 203, 44, 108, 82, 108, 34, 83, 179, 238, 173, 188, 249, 15, 52, 132, 53, 24, 145, 68, 194, 156, 95, 76, 157, 69, 112, 75, 205, 136, 64>>>>,
   <<<<>>, <<40>>,
     <<207, 215, 82, 178, 116, 164, 59, 78, 180, 78, 17, 172, 218, 194, 151, 94, 28, 133, 82, 146, 7, 106, 211, 160, 221, 212, 66, 163, 240, 166, 212, 5>>>>,
   <<<<>>, <<41>>,
     <<22, 247, 54, 253, 103, 98, 179, 224, 231, 252, 91, 202, 191, 146, 7, 166, 33, 97, 81, 123, 115, 90, 221, 108, 184, 231, 122, 43, 134, 206, 233, 236>>>>,
   <<<<>>, <<42>>,
     <<60, 9, 183, 40, 156, 114, 225, 94, 247, 83, 150, 50, 26, 255, 42, 91, 98, 109, 30, 70, 68, 86, 191, 119, 243, 195, 150, 110, 222, 22, 34, 115>>>>,
   <<<<>>, <<43>>,
     <<116, 201, 151, 22, 190, 241, 213, 113, 55, 82, 59, 39, 53, 78, 142, 15, 100, 14, 197, 196, 68, 184, 124, 3, 59, 218, 171, 73, 245, 82, 151, 130>>>>,
   <<<<>>, <<44>>,
     <<8, 78, 218, 43, 213, 204, 124, 162, 166, 175, 200, 120, 242, 25, 163, 140, 180, 145, 214, 138, 59, 184, 32, 84, 0, 171, 158, 211, 241, 85, 190, 139>>>>,
   <<<<>>, <<45>>,
     <<158, 170, 130, 234, 0, 69, 151, 150, 225, 175, 35, 224, 186, 64, 30, 9, 240, 161, 76, 244, 202, 172, 49, 80, 135, 144, 239, 194, 252, 188, 194, 82>>>>,
   <<<<>>, <<46>>,
     <<13, 10, 183, 139, 171, 204, 228, 123, 104, 96, 148, 106, 173, 114, 13, 204, 19, 99, 15, 112, 7, 67, 100, 182, 86, 101, 196, 202, 239, 184, 30, 207>>>>,
   <<<<>>, <<47>>,
     <<205, 208, 70, 143, 137, 113, 190, 40, 165, 139, 103, 124, 23, 121, 210, 87, 103, 222, 241, 10, 30, 164, 34, 78, 130, 177, 98, 7, 29, 21, 208, 162>>>>,
   <<<<>>, <<48>>,
     <<153, 121, 228, 195, 238, 25, 150, 95, 158, 204, 109, 202, 107, 57, 84, 177, 12, 24, 193, 191, 161, 5, 197, 18, 204, 58, 229, 139, 232, 93, 183, 28>>>>,
   <<<<>>, <<>>,
     <<182, 19, 103, 154, 8, 20, 217, 236, 119, 47, 149, 215, 120, 195, 95, 197, 255, 22, 151, 196, 147, 113, 86, 83, 198, 199, 18, 20, 66, 146, 197, 173>>>>,
   <<<<>>, <<255>>,
     <<73, 133, 248, 117, 149, 33, 35, 76, 161, 137, 64, 178, 237, 23, 250, 223, 137, 54, 74, 77, 7, 199, 37, 156, 161, 170, 66, 148, 40, 97, 166, 30>>>>,
   <<<<>>, <<0, 0>>,
     <<179, 24, 37, 116, 44, 125, 255, 223, 220, 234, 97, 127, 129, 234, 220, 251, 85, 225, 248, 95, 58, 38, 10, 191, 64, 243, 142, 109, 0, 71, 44, 90>>>>,
   <<<<>>, <<0, 1>>,
     <<127, 182, 50, 10, 195, 107, 68, 83, 10, 255, 194, 241, 70, 34, 49, 34, 255, 40, 247, 82, 173, 234, 51, 214, 17, 102, 236, 182, 103, 168, 49, 41>>>>,
   <<<<>>, <<0, 255>>,
     <<138, 119, 226, 87, 136, 140, 0, 149, 41, 35, 227, 83, 131, 244, 8, 33, 131, 173, 139, 234, 204, 104, 254, 17, 187, 189, 198, 27, 16, 135, 61, 15>>>>,
   <<<<>>, <<1, 0>>,
     <<167, 5, 104, 43, 10, 153, 172, 36, 38, 74, 153, 132, 107, 224, 39, 109, 33, 153, 150, 143, 171, 35, 161, 79, 149, 213, 100, 186, 147, 171, 1, 16>>>>,
   <<<<>>, <<1, 1>>,
     <<4, 173, 86, 10, 228, 206, 55, 195, 37, 26, 90, 59, 115, 43, 3, 14, 249, 205, 62, 158, 128, 72, 229, 206, 239, 98, 244, 190, 159, 59, 183, 75>>>>,
   <<<<>>, <<1, 255>>,
     <<215, 43, 87, 223, 186, 144, 251, 10, 55, 245, 22, 246, 242, 187, 214, 246, 58, 89, 33, 143, 77, 72, 213, 183, 211, 178, 219, 32, 180, 38, 39, 50>>>>,
   <<<<>>, <<255, 0>>,
     <<78, 191, 125, 150, 27, 157, 21, 199, 234, 58, 143, 223, 68, 117, 3, 29, 6, 1, 171, 69, 161, 6, 108, 241, 13, 39, 96, 206, 175, 201, 56, 145>>>>,
   <<<<>>, <<255, 1>>,
     <<28, 241, 8, 83, 126, 235, 224, 152, 206, 250, 222, 39, 188, 62, 203, 113, 135, 225, 139, 199, 104, 198, 51, 184, 200, 202, 153, 235, 86, 52, 130, 79>>>>,
   <<<<>>, <<255, 255>>,
     <<210, 255, 193, 46, 111, 55, 114, 68, 200, 58, 197, 238, 23, 78, 141, 200, 128, 65, 185, 223, 218, 105, 221, 98, 232, 77, 104, 109, 137, 73, 41, 185>>>>,
   <<<<>>, <<0, 0, 0>>,
     <<231, 101, 82, 5, 3, 158, 221, 236, 102, 155, 220, 80, 153, 134, 48, 36, 222, 239, 26, 96, 148, 48, 241, 13, 172, 95, 120, 137, 240, 59, 241, 57>>>>,
   <<<<>>, <<0, 0, 1>>,
     <<128, 248, 229, 76, 167, 73, 157, 202, 70, 81, 221, 157, 132, 116, 106, 240, 196, 71, 242, 249, 151, 14, 166, 96, 227, 117, 70, 1, 144, 56, 137, 126>>>>,
   <<<<>>, <<0, 0, 255>>,
     <<158, 137, 95, 202, 181, 34, 221, 5, 230, 169, 124, 105, 247, 131, 170, 247, 6, 159, 120, 101, 36, 167, 177, 233, 32, 105, 238, 209, 201, 203, 209, 32>>>>,
   <<<<>>, <<0, 1, 0>>,
     <<222, 177, 68, 169, 230, 126, 19, 22, 183, 22, 69, 36, 149, 62, 39, 161, 50, 7, 161, 6, 2, 52, 17, 147, 56, 59, 176, 80, 93, 144, 109, 115>>>>,
   <<<<>>, <<0, 1, 1>>,
     <<248, 97, 218, 193, 134, 232, 96, 64, 237, 227, 95, 236, 142, 153, 231, 241, 65, 111, 159, 50, 166, 216, 23, 167, 79, 165, 192, 103, 201, 51, 117, 130>>>>,
   <<<<>>, <<0, 1, 255>>,
     <<243, 132, 141, 49, 53, 128, 101, 161, 112, 160, 214, 244, 99, 203, 38, 87, 238, 243, 166, 152, 45, 192, 39, 137, 167, 157, 101, 4, 138, 74, 240, 173>>>>,
   <<<<>>, <<0, 255, 0>>,
     <<221, 133, 254, 152, 125, 64, 58, 180, 115, 220, 68, 201, 4, 224, 6, 92, 242, 41, 204, 191, 206, 49, 23, 147, 235, 224, 89, 250, 154, 65, 173, 35>>>>,
   <<<<>>, <<0, 255, 1>>,
     <<73, 149, 237, 76, 60, 175, 39, 119, 111, 116, 74, 161, 194, 74, 237, 204, 16, 182, 23, 128, 136, 23, 97, 168, 255, 34, 214, 144, 231, 88, 233, 187>>>>,
   <<<<>>, <<0, 255, 255>>,
     <<220, 71, 186, 245, 210, 14, 103, 43, 91, 107, 206, 50, 148, 164, 233, 194, 123, 198, 142, 1, 150, 120, 219, 249, 64, 14, 74, 143, 18, 217, 196, 1>>>>,
   <<<<>>, <<1, 0, 0>>,
     <<80, 199, 207, 152, 9, 251, 58, 106, 73, 180, 158, 80, 194, 60, 32, 241, 248, 193, 234, 152, 156, 183, 212, 183, 63, 63, 68, 8, 167, 155, 206, 181>>>>,
   <<<<>>, <<1, 0, 1>>,
     <<1, 181, 94, 252, 51, 161, 39, 57, 62, 131, 161, 156, 7, 111, 49, 149, 110, 68, 119, 163, 245, 157, 146, 236, 215, 252, 67, 54, 155, 51, 225, 180>>>>,
   <<<<>>, <<1, 0, 255>>,
     <<192, 244, 244, 66, 75, 111, 89, 236, 192, 200, 69, 176, 69, 59, 192, 124, 40, 65, 19, 144, 229, 93, 190, 37, 226, 102, 84, 49, 205, 110, 32, 41>>>>,
   <<<<>>, <<1, 1, 0>>,
     <<60, 9, 86, 249, 42, 216, 116, 210, 120, 220, 159, 226, 185, 34, 19, 88, 71, 117, 196, 226, 62, 173, 77, 70, 255, 213, 234, 135, 66, 62, 242, 131>>>>,
   <<<<>>, <<1, 1, 1>>,
     <<213, 128, 66, 195, 20, 231, 127, 200, 29, 42, 123, 70, 168, 108, 14, 100, 232, 14, 248, 251, 247, 201, 103, 116, 2, 3, 173, 11, 107, 135, 243, 173>>>>,
   <<<<>>, <<1, 1, 255>>,
     <<109, 65, 206, 222, 36, 43, 222, 227, 67, 102, 187, 212, 97, 104, 172, 180, 109, 111, 159, 247, 7, 195, 185, 66, 251, 24, 25, 46, 107, 52, 20, 17>>>>,
   <<<<>>, <<1, 255, 0>>,
     <<200, 241, 104, 251, 174, 63, 208, 165, 31, 47, 201, 146, 159, 161, 114, 118, 192, 197, 207, 162, 206, 113, 133, 42, 103, 138, 6, 229, 180, 13, 20, 127>>>>,
   <<<<>>, <<1, 255, 1>>,
     <<206, 135, 208, 1, 203, 89, 224, 132, 35, 154, 107, 223, 98, 222, 203, 142, 112, 68, 138, 61, 176, 214, 147, 4, 165, 180, 206, 176, 87, 17, 146, 25>>>>,
   <<<<>>, <<1, 255, 255>>,
     <<131, 239, 97, 218, 77, 174, 94, 209, 3, 143, 232, 136, 253, 132, 19, 13, 28, 42, 233, 17, 20, 137, 216, 187, 95, 22, 45, 52, 164, 98, 2, 145>>>>,
   <<<<>>, <<255, 0, 0>>,
     <<26, 2, 46, 11, 30, 209, 211, 249, 184, 237, 58, 9, 51, 237, 2, 155, 254, 32, 23, 112, 209, 165, 100, 173, 150, 91, 117, 171, 176, 106, 103, 68>>>>,
   <<<<>>, <<255, 0, 1>>,
     <<75, 206, 174, 160, 52, 41, 81, 15, 247, 197, 191, 41, 71, 136, 0, 176, 112, 89, 231, 42, 100, 49, 137, 71, 184, 17, 78, 82, 27, 110, 64, 204>>>>,
   <<<<>>, <<255, 0, 255>>,
     <<121, 213, 16, 0, 194, 122, 13, 124, 160, 69, 27, 21, 91, 220, 25, 199, 90, 250, 237, 152, 109, 189, 98, 234, 208, 161, 180, 245, 142, 71, 63, 227>>>>,
   <<<<>>, <<255, 1, 0>>,
     <<39, 222, 162, 102, 8, 143, 66, 48, 105, 89, 1, 63, 178, 9, 194, 21, 37, 251, 35, 150, 218, 157, 60, 94, 22, 82, 249, 150, 122, 228, 240, 138>>>>,
   <<<<>>, <<255, 1, 1>>,
     <<99, 156, 141, 142, 198, 92, 14, 5, 40, 4, 147, 138, 175, 18, 45, 211, 31, 102, 101, 146, 132, 236, 44, 176, 216, 107, 21, 148, 47, 52, 244, 243>>>>,
   <<<<>>, <<255, 1, 255>>,
     <<73, 14, 49, 145, 40, 217, 185, 126, 33, 116, 104, 121, 130, 193, 166, 220, 254, 246, 132, 136, 248, 141, 144, 205, 176, 208, 104, 91, 190, 72, 88, 53>>>>,
   <<<<>>, <<255, 255, 0>>,
     <<43, 157, 154, 43, 225, 4, 220, 151, 57, 243, 18, 247, 230, 192, 83, 23, 21, 64, 240, 76, 158, 223, 205, 4, 30, 65, 69, 98, 223, 137, 181, 12>>>>,
   <<<<>>, <<255, 255, 1>>,
     <<175, 200, 173, 49, 249, 202, 37, 243, 182, 20, 101, 191, 221, 109, 20, 43, 172, 24, 149, 158, 52, 137, 79, 142, 182, 9, 6, 219, 102, 223, 176, 241>>>>,
   <<<<>>, <<255, 255, 255>>,
     <<29, 116, 85, 96, 157, 235, 35, 153, 227, 169, 232, 157, 246, 134, 239, 32, 139, 105, 45, 69, 190, 23, 210, 226, 140, 33, 218, 110, 136, 232, 141, 46>>>>,
   <<<<115, 51, 99, 114, 101, 116>>, <<0>>,
     <<184, 46, 93, 68, 149, 211, 129, 141, 229, 93, 135, 234, 163, 102, 200, 192, 110, 54, 38, 191, 81, 236, 18, 68, 16, 103, 115, 227, 184, 228, 34, 24>>>>,
   <<<<115, 51, 99, 114, 101, 116>>, <<1>>,
     <<171, 18, 210, 38, 143, 202, 255, 103, 168, 238, 8, 232, 112, 12, 23, 139, 159, 180, 218, 195, 148, 129, 35, 82, 39, 95, 32, 180, 197, 168, 166, 208>>>>,
   <<<<115, 51, 99, 114, 101, 116>>, <<2>>,
     <<195, 93, 180, 74, 135, 112, 121, 83, 255, 180, 130, 198, 255, 198, 33, 217, 246, 239, 176, 213, 65, 207, 189, 216, 166, 63, 132, 175, 47, 196, 82, 134>>>>,
   <<<<115, 51, 99, 114, 101, 116>>, <<3>>,
     <<116, 39, 1, 249, 139, 101, 144, 247, 32, 93, 25, 190, 249, 240, 88, 217, 215, 196, 50, 82, 77, 200, 52, 235, 117, 155, 86, 240, 13, 185, 40, 130>>>>,
   <<<<115, 51, 99, 114, 101, 116>>, <<4>>,
     <<26, 205, 234, 252, 37, 182, 183, 148, 97, 20, 79, 125, 208, 1, 57, 173, 181, 22, 150, 99, 201, 37, 69, 150, 32, 137, 131, 109, 1, 140, 212, 14>>>>,
   <<<<115, 51, 99, 114, 101, 116>>, <<5>>,
     <<196, 159, 150, 119, 53, 9, 15, 31, 124, 137, 142, 156, 6, 139, 124, 99, 205, 79, 49, 11, 43, 39, 86, 254, 128, 239, 10, 240, 60, 190, 74, 131>>>>,
   <<<<115, 51, 99, 114, 101, 116>>, <<6>>,
     <<167, 212, 181, 73, 211, 193, 193, 40, 111, 106, 207, 190, 168, 230, 81, 57, 211, 32, 213, 215, 172, 213, 158, 234, 78, 150, 205, 247, 139, 2, 222, 99>>>>,
   <<<<115, 51, 99, 114, 101, 116>>, <<7>>,
     <<107, 25, 146, 234, 42, 108, 98, 33, 134, 152, 156, 23, 239, 177, 253, 127, 138, 6, 87, 121, 105, 66, 15, 193, 149, 214, 206, 253, 160, 71, 167, 20>>>>,
   <<<<115, 51, 99, 114, 101, 116>>, <<8>>,
     <<238, 133, 12, 222, 178, 52, 88, 54, 3, 22, 230, 248, 220, 205, 115, 121, 231, 149, 195, 130, 187, 47, 214, 74, 93, 159, 108, 177, 222, 198, 198, 205>>>>,
   <<<<115, 51, 99, 114, 101, 116>>, <<9>>,
     <<172, 171, 87, 222, 116, 118, 196, 177, 221, 151, 31, 88, 56, 182, 21, 182, 52, 124, 177, 233, 174, 22, 218, 220, 153, 184, 244, 105, 96, 200, 89, 251>>>>,
   <<<<115, 51, 99, 114, 101, 116>>, <<10>>,
     <<102, 4, 78, 148, 165, 233, 3, 213, 37, 156, 6, 5, 95, 60, 17, 56, 53, 95, 191, 133, 126, 112, 160, 133, 192, 201, 68, 47, 166, 181, 207, 6>>>>,
   <<<<115, 51, 99, 114, 101, 116>>, <<11>>,
     <<116, 130, 114, 93, 151, 2, 188, 153, 115, 154, 92, 178, 29, 233, 169, 118, 123, 254, 191, 236, 244, 146, 148, 169, 70, 132, 69, 160, 90, 43, 172, 71>>>>,
   <<<<115, 51, 99, 114, 101, 116>>, <<12>>,
     <<191, 220, 88, 139, 30, 147, 240, 92, 2, 158, 227, 78, 75, 223, 177, 31, 254, 198, 221, 195, 25, 167, 219, 214, 98, 197, 170, 177, 148, 114, 23, 20>>>>,
   <<<<115, 51, 99, 114, 101, 116>>, <<13>>,
     <<126, 60, 38, 74, 177, 5, 223, 29, 251, 4, 30, 126, 159, 174, 82, 71, 73, 236, 229, 78, 207, 94, 223, 82, 33, 163, 236, 65, 16, 62, 193, 127>>>>,
   <<<<115, 51, 99, 114, 101, 116>>, <<14>>,
     <<7, 151, 167, 164, 25, 44, 62, 98, 137, 179, 31, 244, 224, 116, 138, 218, 52, 146, 65, 208, 163, 200, 10, 32, 32, 57, 44, 213, 232, 64, 198, 129>>>>,
   <<<<115, 51, 99, 114, 101, 116>>, <<15>>,
     <<40, 209, 15, 7, 140, 125, 147, 251, 225, 74, 83, 145, 135, 83, 194, 68, 163, 60, 93, 80, 121, 252, 132, 70, 74, 172, 159, 222, 67, 195, 123, 105>>>>,
   <<<<115, 51, 99, 114, 101, 116>>, <<16>>,
     <<222, 238, 183, 192, 231, 78, 37, 40, 204, 177, 251, 71, 228, 187, 32, 41, 150, 231, 168, 108, 140, 66, 254, 52, 124, 196, 246, 22, 81, 36, 248, 227>>>>,
   <<<<115, 51, 99, 114, 101, 116>>, <<17>>,
     <<251, 212, 44, 131, 230, 145, 238, 133, 153, 39, 112, 112, 37, 101, 193, 15, 212, 40, 145, 232, 2, 158, 35, 214, 169, 235, 205, 95, 94, 195, 122, 6>>>>,
   <<<<115, 51, 99, 114, 101, 116>>, <<18>>,
     <<4, 31, 142, 19, 67, 200, 200, 251, 193, 42, 174, 43, 239, 103, 13, 241, 95, 115, 169, 89, 172, 93, 110, 79, 37, 94, 232, 161, 11, 248, 219, 187>>>>,
   <<<<115, 51, 99, 114, 101, 116>>, <<19>>,
     <<189, 61, 221, 241, 49, 67, 141, 90, 209, 20, 216, 99, 20, 67, 182, 8, 70, 52, 213, 235, 179, 69, 26, 134, 223, 101, 181, 106, 160, 28, 17, 150>>>>,
   <<<<115, 51, 99, 114, 101, 116>>, <<20>>,
     <<140, 44, 93, 165, 77, 216, 210, 186, 1, 37, 31, 227, 70, 253, 10, 25, 37, 40, 103, 154, 186, 12, 35, 155, 75, 119, 46, 59, 90, 28, 195, 179>>>>,
   <<<<115, 51, 99, 114, 101, 116>>, <<21>>,
     <<173, 200, 104, 255, 38, 255, 23, 217, 190, 27, 229, 1, 118, 120, 211, 141, 41, 98, 129, 240, 231, 251, 19, 81, 27, 75, 27, 35, 93, 164, 9, 114>>>>,
   <<<<115, 51, 99, 114, 101, 116>>, <<22>>,
     <<183, 41, 220, 123, 173, 177, 98, 135, 111, 249, 0, 47, 102, 232, 108, 253, 160, 130, 186, 94, 207, 161, 103, 34, 122, 17, 76, 227, 213, 45, 86, 237>>>>,
   <<<<115, 51, 99, 114, 101, 116>>, <<23>>,
     <<38, 81, 197, 210, 85, 209, 179, 181, 222, 137, 210, 149, 66, 246, 163, 235, 252, 116, 136, 224, 48, 174, 78, 157, 234, 102, 213, 27, 77, 21, 16, 229>>>>,
   <<<<115, 51, 99, 114, 101, 116>>, <<24>>,
     <<133, 6, 18, 141, 183, 172, 149, 177, 45, 191, 153, 215, 18, 131, 226, 188, 120, 215, 86, 42, 35, 177, 64, 137, 33, 237, 207, 232, 209, 229, 248, 218>>>>,
   <<<<115, 51, 99, 114, 101, 116>>, <<25>>,
     <<85, 88, 51, 135, 229, 246, 252, 168, 57, 84, 253, 243, 214, 132, 164, 147, 201, 97, 118, 218, 25, 87, 111, 47, 138, 67, 146, 97, 195, 80, 145, 71>>>>,
   <<<<115, 51, 99, 114, 101, 116>>, <<26>>,
     <<147, 163, 175, 182, 229, 249, 114, 254, 113, 126, 143, 94, 223, 135, 19, 36, 158, 199, 157, 80, 7, 179, 137, 28, 95, 253, 82, 172, 25, 69, 45, 227>>>>,
   <<<<115, 51, 99, 114, 101, 116>>, <<27>>,
     <<254, 42, 1, 96, 24, 237, 75, 23, 73, 6, 83, 93, 22, 153, 50, 53, 126, 21, 144, 54, 73, 34, 189, 133, 252, 79, 9, 161, 154, 143, 46, 5>>>>,
   <<<<115, 51, 99, 114, 101, 116>>, <<28>>,
     <<159, 23, 18, 209, 110, 245, 235, 58, 144, 252, 224, 189, 174, 109, 243, 12, 11, 144, 46, 243, 58, 172, 206, 210, 233, 149, 249, 132, 237, 213, 11, 184>>>>,
   <<<<115, 51, 99, 114, 101, 116>>, <<29>>,
     <<223, 156, 215, 245, 16, 232, 171, 122, 229, 68, 24, 43, 211, 224, 184, 14, 246, 88, 136, 163, 58, 87, 249, 4, 109, 246, 155, 247, 99, 7, 59, 32>>>>,
   <<<<115, 51, 99, 114, 101, 116>>, <<30>>,
     <<13, 5, 120, 80, 162, 116, 87, 100, 121, 93, 83, 2, 115, 124, 139, 17, 227, 206, 67, 127, 131, 42, 81, 34, 175, 9, 12, 5, 16, 2, 122, 232>>>>,
   <<<<115, 51, 99, 114, 101, 116>>, <<31>>,
     <<25, 192, 127, 14, 18, 39, 231, 241, 111, 210, 123, 118, 197, 235, 223, 110, 188, 97, 131, 56, 99, 216, 126, 62, 200, 9, 246, 141, 151, 242, 214, 171>>>>,
   <<<<115, 51, 99, 114, 101, 116>>, <<32>>,
     <<59, 40, 225, 198, 224, 139, 244, 146, 110, 171, 117, 232, 58, 9, 133, 132, 14, 241, 169, 163, 155, 160, 232, 50, 71, 150, 108, 132, 59, 195, 82, 67>>>>,
   <<<<115, 51, 99, 114, 101, 116>>, <<33>>,
     <<196, 7, 42, 252, 29, 42, 162, 243, 46, 57, 181, 36, 140, 172, 34, 159, 96, 164, 21, 53, 196, 244, 115, 130, 26, 228, 24, 149, 177, 168, 234, 229>>>>,
   <<<<115, 51, 99, 114, 101, 116>>, <<34>>,
     <<50, 126, 10, 33, 82, 166, 136, 246, 16, 67, 156, 237, 17, 242, 86, 221, 18, 195, 150, 245, 162, 188, 195, 95, 151, 178, 54, 237, 6, 250, 245, 116>>>>,
   <<<<115, 51, 99, 114, 101, 116>>, <<35>>,
     <<172, 170, 193, 187, 203, 197, 220, 81, 240, 216, 10, 40, 92, 234, 120, 143, 11, 219, 160, 225, 131, 16, 97, 209, 172, 183, 0, 148, 131, 19, 48, 227>>>>,
   <<<<115, 51, 99, 114, 101, 116>>, <<36>>,
     <<241, 36, 250, 179, 152, 69, 108, 76, 19, 6, 78, 216, 48, 86, 160, 13, 176, 189, 209, 64, 78, 48, 127, 213, 212, 45, 227, 116, 11, 156, 15, 239>>>>,
   <<<<115, 51, 99, 114, 101, 116>>, <<37>>,
     <<155, 16, 122, 173, 253, 155, 13, 44, 46, 78, 62, 136, 75, 60, 90, 9, 125, 56, 87, 212, 134, 136, 108, 171, 223, 86, 236, 115, 105, 245, 118, 3>>>>,
   <<<<115, 51, 99, 114, 101, 116>>, <<38>>,
     <<216, 63, 37, 124, 62, 88, 222, 161, 126, 19, 115, 53, 214, 187, 10, 89, 222, 5, 200, 77, 112, 144, 84, 3, 29, 202, 163, 28, 229, 214, 32, 165>>>>,
   <<<<115, 51, 99, 114, 101, 116>>, <<39>>,
     <<120, 242, 169, 168, 28, 170, 99, 127, 80, 121, 64, 109, 135, 170, 123, 51, 33, 164, 56, 85, 150, 82, 70, 158, 125, 161, 214, 84, 158, 141, 235, 213>>>>,
   <<<<115, 51, 99, 114, 101, 116>>, <<40>>,
     <<224, 194, 21, 192, 107, 149, 73, 148, 177, 28, 205, 171, 207, 145, 151, 54, 40, 50, 142, 62, 114, 104, 88, 44, 172, 123, 120, 141, 83, 87, 85, 155>>>>,
   <<<<115, 51, 99, 114, 101, 116>>, <<41>>,
     <<82, 161, 142, 224, 28, 182, 141, 99, 22, 238, 54, 80, 224, 94, 69, 72, 234, 255, 188, 251, 103, 235, 0, 48, 117, 110, 100, 76, 120, 12, 91, 54>>>>,
   <<<<115, 51, 99, 114, 101, 116>>, <<42>>,
     <<175, 178, 237, 158, 6, 61, 75, 166, 147, 231, 241, 244, 40, 137, 43, 173, 146, 236, 18, 47, 35, 215, 229, 225, 109, 6, 38, 100, 48, 100, 1, 136>>>>,
   <<<<115, 51, 99, 114, 101, 116>>, <<43>>,
     <<11, 200, 48, 201, 106, 250, 10, 162, 152, 110, 77, 50, 153, 87, 214, 78, 237, 121, 167, 191, 36, 54, 147, 196, 99, 221, 114, 254, 209, 183, 141, 244>>>>,
   <<<<115, 51, 99, 114, 101, 116>>, <<44>>,
     <<187, 233, 170, 149, 42, 24, 245, 5, 67, 137, 220, 36, 84, 61, 1, 85, 91, 150, 208, 249, 56, 200, 232, 117, 12, 55, 34, 130, 99, 189, 29, 43>>>>,
   <<<<115, 51, 99, 114, 101, 116>>, <<45>>,
     <<189, 73, 236, 105, 88, 161, 121, 181, 80, 158, 163, 80, 109, 244, 76, 155, 182, 152, 101, 2, 229, 217, 93, 197, 124, 137, 118, 173, 215, 206, 219, 27>>>>,
   <<<<115, 51, 99, 114, 101, 116>>, <<46>>,
     <<246, 61, 63, 184, 201, 191, 225, 82, 17, 143, 43, 92, 160, 107, 156, 244, 245, 120, 59, 18, 185, 130, 35, 153, 172, 118, 44, 92, 154, 55, 197, 104>>>>,
   <<<<115, 51, 99, 114, 101, 116>>, <<47>>,
     <<177, 122, 223, 105, 62, 252, 205, 99, 223, 193, 232, 129, 146, 213, 202, 197, 113, 52, 206, 241, 254, 214, 80, 159, 129, 157, 130, 74, 81, 56, 162, 210>>>>,
   <<<<115, 51, 99, 114, 101, 116>>, <<48>>,
     <<69, 119, 122, 129, 242, 118, 246, 14, 138, 28, 123, 111, 83, 200, 128, 164, 176, 79, 41, 79, 210, 77, 161, 86, 34, 247, 31, 103, 136, 98, 197, 85>>>>,
   <<<<115, 51, 99, 114, 101, 116>>, <<>>,
     <<145, 223, 172, 112, 197, 52, 139, 4, 225, 186, 187, 139, 66, 26, 201, 44, 236, 8, 181, 101, 180, 156, 161, 97, 48, 220, 203, 114, 80, 54, 71, 183>>>>,
   <<<<115, 51, 99, 114, 101, 116>>, <<255>>,
     <<8, 97, 109, 32, 198, 169, 94, 0, 181, 130, 42, 154, 15, 136, 174, 182, 58, 218, 161, 246, 126, 216, 52, 195, 53, 242, 173, 149, 208, 46, 88, 188>>>>,
   <<<<115, 51, 99, 114, 101, 116>>, <<0, 0>>,
     <<176, 172, 20, 108, 240, 8, 98, 237, 17, 20, 147, 75, 112, 115, 220, 79, 142, 127, 255, 145, 173, 6, 189, 184, 158, 5, 185, 222, 58, 180, 70, 96>>>>,
   <<<<115, 51, 99, 114, 101, 116>>, <<0, 1>>,
     <<253, 13, 37, 213, 146, 238, 27, 199, 47, 141, 20, 159, 229, 141, 100, 152, 86, 139, 172, 39, 19, 225, 221, 216, 198, 101, 125, 77, 151, 60, 11, 228>>>>,
   <<<<115, 51, 99, 114, 101, 116>>, <<0, 255>>,
     <<13, 225, 229, 157, 6, 132, 50, 14, 38, 83, 103, 161, 116, 123, 141, 22, 190, 29, 34, 148, 89, 87, 40, 167, 79, 82, 194, 28, 56, 67, 21, 138>>>>,
   <<<<115, 51, 99, 114, 101, 116>>, <<1, 0>>,
     <<59, 50, 255, 175, 191, 210, 92, 243, 229, 27, 208, 4, 157, 98, 183, 20, 246, 171, 164, 163, 172, 65, 184, 206, 126, 150, 112, 30, 113, 139, 31, 109>>>>,
   <<<<115, 51, 99, 114, 101, 116>>, <<1, 1>>,
     <<65, 8, 232, 251, 148, 164, 42, 227, 214, 184, 62, 215, 251, 188, 123, 55, 135, 198, 140, 231, 63, 155, 252, 212, 101, 23, 249, 155, 251, 156, 167, 98>>>>,
   <<<<115, 51, 99, 114, 101, 116>>, <<1, 255>>,
     <<6, 35, 187, 107, 171, 207, 229, 131, 215, 35, 91, 30, 145, 76, 82, 5, 164, 103, 166, 240, 88, 104, 183, 106, 53, 200, 149, 204, 146, 47, 11, 33>>>>,
   <<<<115, 51, 99, 114, 101, 116>>, <<255, 0>>,
     <<239, 239, 75, 243, 213, 190, 11, 173, 124, 122, 175, 220, 96, 197, 58, 118, 252, 32, 18, 23, 60, 1, 2, 166, 104, 199, 193, 183, 200, 118, 0, 36>>>>,
   <<<<115, 51, 99, 114, 101, 116>>, <<255, 1>>,
     <<223, 2, 138, 170, 76, 162, 50, 71, 255, 125, 161, 65, 185, 166, 219, 200, 203, 246, 152, 122, 34, 129, 74, 26, 235, 216, 123, 51, 78, 148, 4, 114>>>>,
   <<<<115, 51, 99, 114, 101, 116>>, <<255, 255>>,
     <<187, 215, 196, 97, 151, 22, 61, 87, 209, 175, 105, 132, 32, 27, 14, 248, 181, 100, 194, 252, 108, 253, 10, 247, 199, 98, 129, 209, 171, 101, 32, 111>>>>,
   <<<<115, 51, 99, 114, 101, 116>>, <<0, 0, 0>>,
     <<164, 215, 142, 49, 58, 245, 106, 185, 104, 97, 221, 14, 219, 242, 132, 239, 141, 67, 231, 31, 49, 124, 97, 93, 153, 7, 158, 185, 200, 154, 222, 9>>>>,
   <<<<115, 51, 99, 114, 101, 116>>, <<0, 0, 1>>,
     <<204, 29, 140, 213, 127, 131, 177, 47, 162, 106, 128, 207, 78, 221, 151, 164, 114, 211, 126, 174, 176, 48, 94, 103, 246, 217, 44, 171, 75, 64, 94, 43>>>>,
   <<<<115, 51, 99, 114, 101, 116>>, <<0, 0, 255>>,
     <<195, 231, 62, 170, 89, 91, 69, 43, 216, 5, 231, 78, 70, 96, 26, 184, 82, 162, 126, 168, 139, 178, 245, 107, 173, 240, 234, 230, 227, 178, 120, 184>>>>,
   <<<<115, 51, 99, 114, 101, 116>>, <<0, 1, 0>>,
     <<15, 213, 12, 134, 67, 117, 92, 47, 96, 33, 223, 241, 99, 186, 180, 220, 131, 120, 34, 125, 206, 181, 141, 239, 252, 135, 55, 167, 91, 165, 213, 69>>>>,
   <<<<115, 51, 99, 114, 101, 116>>, <<0, 1, 1>>,
     <<133, 91, 126, 54, 43, 15, 210, 136, 186, 192, 39, 144, 112, 207, 132, 139, 59, 128, 89, 23, 32, 128, 218, 75, 68, 109, 198, 54, 88, 29, 29, 255>>>>,
   <<<<115, 51, 99, 114, 101, 116>>, <<0, 1, 255>>,
     <<75, 83, 231, 34, 77, 131, 214, 17, 206, 72, 160, 148, 59, 167, 72, 164, 206, 48, 86, 172, 254, 72, 119, 1, 200, 66, 118, 142, 113, 71, 171, 135>>>>,
   <<<<115, 51, 99, 114, 101, 116>>, <<0, 255, 0>>,
     <<8, 194, 133, 245, 255, 6, 196, 164, 221, 153, 208, 150, 254, 43, 200, 160, 159, 151, 135, 167, 1, 252, 143, 230, 126, 87, 13, 65, 60, 199, 28, 195>>>>,
   <<<<115, 51, 99, 114, 101, 116>>, <<0, 255, 1>>,
     <<242, 168, 9, 206, 21, 134, 108, 28, 243, 191, 140, 214, 253, 43, 218, 39, 63, 177, 40, 90, 15, 152, 219, 95, 191, 55, 84, 20, 231, 228, 250, 146>>>>,
   <<<<115, 51, 99, 114, 101, 116>>, <<0, 255, 255>>,
     <<119, 188, 181, 205, 192, 39, 153, 186, 220, 155, 243, 82, 91, 153, 24, 211, 71, 24, 18, 104, 113, 0, 155, 133, 34, 90, 36, 58, 66, 164, 149, 5>>>>,
   <<<<115, 51, 99, 114, 101, 116>>, <<1, 0, 0>>,
     <<134, 249, 8, 191, 242, 120, 28, 158, 32, 80, 149, 63, 50, 90, 244, 170, 123, 81, 181, 9, 177, 247, 80, 173, 110, 95, 6, 41, 149, 150, 29, 33>>>>,
   <<<<115, 51, 99, 114, 101, 116>>, <<1, 0, 1>>,
     <<62, 218, 73, 2, 67, 54, 160, 72, 218, 120, 164, 89, 246, 166, 244, 232, 94, 184, 68, 30, 112, 146, 185, 106, 252, 47, 101, 137, 110, 137, 22, 0>>>>,
   <<<<115, 51, 99, 114, 101, 116>>, <<1, 0, 255>>,
     <<96, 187, 6, 154, 135, 99, 163, 53, 178, 60, 59, 116, 42, 130, 202, 253, 13, 46, 150, 252, 117, 250, 185, 105, 117, 107, 144, 72, 109, 196, 245, 150>>>>,
   <<<<115, 51, 99, 114, 101, 116>>, <<1, 1, 0>>,
     <<187, 179, 3, 54, 188, 147, 3, 209, 154, 169, 30, 161, 238, 96, 86, 177, 48, 203, 129, 40, 168, 132, 224, 110, 199, 121, 149, 197, 170, 202, 35, 154>>>>,
   <<<<115, 51, 99, 114, 101, 116>>, <<1, 1, 1>>,
     <<241, 66, 219, 112, 191, 239, 174, 29, 138, 68, 233, 242, 229, 83, 116, 169, 215, 188, 165, 125, 144, 36, 206, 155, 228, 108, 195, 170, 190, 249, 28, 69>>>>,
   <<<<115, 51, 99, 114, 101, 116>>, <<1, 1, 255>>,
     <<166, 47, 188, 239, 158, 42, 101, 191, 78, 243, 151, 140, 106, 52, 170, 147, 40, 28, 50, 40, 150, 229, 212, 159, 232, 242, 230, 213, 202, 224, 161, 75>>>>,
   <<<<115, 51, 99, 114, 101, 116>>, <<1, 255, 0>>,
     <<162, 138, 182, 234, 192, 13, 246, 56, 188, 128, 159, 115, 17, 27, 59, 37, 20, 63, 119, 192, 161, 247, 30, 67, 92, 48, 195, 111, 27, 112, 37, 230>>>>,
   <<<<115, 51, 99, 114, 101, 116>>, <<1, 255, 1>>,
     <<137, 69, 196, 240, 196, 196, 186, 181, 170, 28, 63, 232, 56, 53, 53, 182, 5, 164, 251, 46, 196, 0, 29, 99, 202, 232, 80, 138, 28, 165, 186, 116>>>>,
   <<<<115, 51, 99, 114, 101, 116>>, <<1, 255, 255>>,
     <<120, 223, 254, 116, 20, 76, 84, 137, 185, 232, 187, 238, 185, 209, 230, 243, 16, 137, 133, 119, 180, 100, 133, 179, 176, 37, 40, 186, 193, 209, 113, 95>>>>,
   <<<<115, 51, 99, 114, 101, 116>>, <<255, 0, 0>>,
     <<116, 66, 191, 227, 115, 89, 174, 169, 75, 248, 35, 122, 160, 120, 44, 250, 245, 48, 195, 13, 46, 39, 196, 147, 2, 235, 61, 144, 205, 136, 112, 92>>>>,
   <<<<115, 51, 99, 114, 101, 116>>, <<255, 0, 1>>,
     <<127, 94, 59, 25, 77, 194, 163, 156, 100, 27, 221, 167, 237, 86, 220, 64, 84, 60, 94, 60, 119, 248, 202, 188, 119, 181, 175, 129, 159, 135, 19, 66>>>>,
   <<<<115, 51, 99, 114, 101, 116>>, <<255, 0, 255>>,
     <<173, 162, 203, 47, 217, 47, 253, 145, 37, 14, 223, 22, 249, 21, 24, 104, 177, 72, 197, 186, 246, 169, 154, 56, 241, 7, 220, 29, 183, 40, 61, 121>>>>,
   <<<<115, 51, 99, 114, 101, 116>>, <<255, 1, 0>>,
     <<161, 140, 18, 139, 152, 217, 160, 239, 115, 178, 124, 201, 193, 54, 150, 36, 66, 1, 99, 11, 51, 241, 103, 117, 92, 168, 215, 36, 29, 37, 78, 139>>>>,
   <<<<115, 51, 99, 114, 101, 116>>, <<255, 1, 1>>,
     <<130, 175, 54, 185, 156, 69, 51, 35, 40, 46, 137, 45, 76, 13, 233, 115, 156, 213, 116, 231, 218, 134, 236, 76, 213, 2, 201, 215, 252, 161, 65, 137>>>>,
   <<<<115, 51, 99, 114, 101, 116>>, <<255, 1, 255>>,
     <<53, 42, 69, 210, 241, 49, 0, 99, 250, 171, 238, 194, 78, 250, 157, 189, 78, 174, 34, 145, 185, 96, 205, 113, 195, 170, 222, 93, 189, 92, 175, 111>>>>,
   <<<<115, 51, 99, 114, 101, 116>>, <<255, 255, 0>>,
     <<244, 160, 171, 4, 147, 198, 95, 97, 119, 206, 143, 28, 38, 129, 163, 53, 35, 10, 138, 102, 180, 100, 254, 236, 15, 82, 57, 140, 120, 12, 204, 185>>>>,
   <<<<115, 51, 99, 114, 101, 116>>, <<255, 255, 1>>,
     <<87, 43, 96, 143, 114, 78, 229, 106, 220, 6, 118, 79, 145, 148, 196, 170, 54, 131, 114, 14, 32, 30, 161, 174, 96, 18, 236, 49, 49, 131, 172, 218>>>>,
   <<<<115, 51, 99, 114, 101, 116>>, <<255, 255, 255>>,
     <<162, 14, 46, 155, 235, 52, 50, 50, 215, 45, 148, 192, 44, 169, 210, 182, 46, 69, 101, 200, 239, 112, 53, 238, 19, 253, 236, 18, 133, 239, 74, 126>>>>,
   <<<<119, 114, 111, 110, 103>>, <<0>>,
     <<136, 53, 117, 16, 94, 0, 59, 207, 27, 227, 40, 98, 192, 42, 223, 117, 193, 53, 25, 247, 126, 11, 126, 207, 179, 173, 32, 135, 85, 44, 227, 74>>>>,
   <<<<119, 114, 111, 110, 103>>, <<1>>,
     <<142, 75, 63, 235, 58, 207, 250, 98, 92, 64, 12, 120, 82, 68, 3, 116, 224, 156, 230, 243, 75, 126, 163, 76, 69, 32, 99, 122, 107, 135, 233, 60>>>>,
   <<<<119, 114, 111, 110, 103>>, <<2>>,
     <<120, 215, 29, 245, 54, 190, 92, 78, 240, 46, 48, 240, 165, 131, 186, 32, 186, 164, 87, 212, 227, 187, 0, 224, 117, 52, 115, 202, 180, 194, 151, 186>>>>,
   <<<<119, 114, 111, 110, 103>>, <<3>>,
     <<26, 71, 158, 168, 228, 220, 149, 45, 135, 100, 195, 85, 170, 80, 168, 114, 127, 4, 106, 57, 95, 70, 132, 96, 195, 6, 230, 195, 210, 203, 40, 7>>>>,
   <<<<119, 114, 111, 110, 103>>, <<4>>,
     <<113, 4, 66, 63, 152, 151, 228, 94, 238, 96, 50, 70, 194, 156, 94, 93, 159, 153, 124, 242, 185, 98, 112, 141, 69, 48, 40, 95, 38, 67, 202, 81>>>>,
   <<<<119, 114, 111, 110, 103>>, <<5>>,
     <<121, 0, 197, 1, 86, 29, 149, 56, 206, 45, 253, 110, 219, 183, 25, 84, 44, 227, 37, 200, 106, 27, 215, 223, 177, 104, 156, 55, 100, 243, 38, 131>>>>,
   <<<<119, 114, 111, 110, 103>>, <<6>>,
     <<243, 99, 77, 222, 141, 41, 200, 165, 8, 69, 39, 82, 173, 205, 10, 26, 9, 150, 78, 212, 209, 160, 213, 60, 37, 34, 171, 11, 181, 81, 99, 117>>>>,
   <<<<119, 114, 111, 110, 103>>, <<7>>,
     <<73, 173, 13, 104, 112, 191, 31, 195, 28, 88, 155, 113, 147, 94, 181, 155, 30, 53, 70, 88, 225, 132, 86, 9, 218, 130, 172, 171, 233, 73, 144, 174>>>>,
   <<<<119, 114, 111, 110, 103>>, <<8>>,
     <<77, 136, 232, 240, 208, 140, 46, 32, 4, 245, 190, 123, 35, 194, 200, 172, 66, 143, 209, 96, 126, 92, 163, 191, 1, 175, 249, 89, 202, 242, 133, 56>>>>,
   <<<<119, 114, 111, 110, 103>>, <<9>>,
     <<51, 77, 66, 154, 44, 122, 197, 5, 94, 67, 180, 102, 65, 193, 132, 248, 50, 154, 247, 249, 47, 10, 177, 101, 43, 1, 123, 53, 180, 84, 63, 237>>>>,
   <<<<119, 114, 111, 110, 103>>, <<10>>,
     <<140, 211, 126, 64, 119, 113, 147, 239, 175, 19, 127, 163, 246, 109, 233, 54, 154, 94, 26, 8, 113, 56, 57, 96, 180, 231, 224, 250, 27, 203, 155, 49>>>>,
   <<<<119, 114, 111, 110, 103>>, <<11>>,
     <<135, 239, 199, 50, 179, 147, 172, 150, 115, 224, 73, 122, 25, 37, 130, 100, 107, 98, 41, 105, 235, 45, 81, 121, 173, 161, 158, 201, 158, 196, 73, 181>>>>,
   <<<<119, 114, 111, 110, 103>>, <<12>>,
     <<33, 92, 219, 189, 175, 186, 82, 155, 57, 212, 195, 207, 144, 108, 112, 55, 86, 85, 44, 179, 140, 85, 179, 81, 195, 25, 61, 149, 253, 224, 49, 129>>>>,
   <<<<119, 114, 111, 110, 103>>, <<13>>,
     <<153, 118, 209, 128, 206, 173, 213, 27, 210, 158, 181, 107, 104, 43, 57, 22, 186, 56, 13, 202, 115, 131, 15, 227, 189, 145, 209, 117, 75, 142, 114, 59>>>>,
   <<<<119, 114, 111, 110, 103>>, <<14>>,
     <<86, 74, 101, 36, 151, 23, 161, 244, 182, 161, 40, 244, 134, 190, 33, 26, 4, 117, 73, 184, 41, 103, 222, 162, 87, 157, 161, 254, 7, 31, 38, 250>>>>,
   <<<<119, 114, 111, 110, 103>>, <<15>>,
     <<82, 187, 128, 221, 61, 111, 45, 63, 56, 199, 3, 78, 141, 86, 29, 128, 94, 66, 190, 228, 38, 175, 23, 46, 137, 95, 181, 77, 75, 6, 29, 52>>>>,
   <<<<119, 114, 111, 110, 103>>, <<16>>,
     <<40, 158, 6, 102, 2, 160, 183, 62, 55, 166, 115, 163, 122, 236, 231, 85, 125, 254, 148, 96, 117, 147, 115, 79, 55, 65, 96, 197, 48, 67, 75, 159>>>>,
   <<<<119, 114, 111, 110, 103>>, <<17>>,
     <<190, 96, 167, 69, 156, 123, 15, 33, 105, 93, 53, 68, 250, 59, 109, 241, 188, 156, 48, 155, 84, 152, 58, 32, 180, 245, 122, 66, 81, 213, 23, 168>>>>,
   <<<<119, 114, 111, 110, 103>>, <<18>>,
     <<134, 37, 85, 141, 168, 166, 100, 122, 100, 225, 105, 120, 68, 129, 212, 228, 72, 236, 46, 164, 134, 3, 175, 148, 204, 66, 151, 71, 33, 185, 132, 237>>>>,
   <<<<119, 114, 111, 110, 103>>, <<19>>,
     <<115, 60, 181, 235, 203, 215, 21, 196, 247, 195, 93, 158, 41, 215, 4, 114, 158, 250, 66, 148, 252, 176, 188, 87, 204, 248, 65, 224, 92, 130, 98, 92>>>>,
   <<<<119, 114, 111, 110, 103>>, <<20>>,
     <<235, 154, 22, 174, 193, 148, 9, 115, 46, 123, 25, 180, 36, 101, 90, 254, 5, 182, 233, 80, 130, 223, 189, 147, 114, 76, 251, 93, 255, 170, 96, 165>>>>,
   <<<<119, 114, 111, 110, 103>>, <<21>>,
     <<245, 36, 66, 41, 215, 138, 182, 152, 208, 113, 161, 153, 82, 128, 237, 157, 56, 75, 104, 215, 37, 125, 232, 254, 37, 37, 103, 208, 68, 193, 12, 202>>>>,
   <<<<119, 114, 111, 110, 103>>, <<22>>,
     <<103, 93, 249, 196, 224, 175, 74, 53, 124, 116, 72, 138, 132, 162, 122, 196, 16, 91, 14, 188, 23, 71, 86, 28, 167, 94, 29, 76, 85, 20, 138, 189>>>>,
   <<<<119, 114, 111, 110, 103>>, <<23>>,
     <<75, 110, 127, 1, 188, 113, 70, 194, 73, 170, 35, 217, 102, 164, 8, 105, 7, 245, 113, 184, 135, 155, 97, 135, 244, 0, 51, 177, 98, 224, 238, 213>>>>,
   <<<<119, 114, 111, 110, 103>>, <<24>>,
     <<170, 71, 255, 71, 181, 12, 199, 63, 214, 50, 140, 103, 46, 141, 191, 3, 237, 174, 187, 43, 123, 94, 63, 150, 245, 67, 77, 240, 216, 239, 1, 201>>>>,
   <<<<119, 114, 111, 110, 103>>, <<25>>,
     <<109, 102, 250, 226, 27, 112, 165, 133, 78, 52, 132, 220, 43, 134, 183, 203, 130, 57, 119, 40, 185, 215, 1, 181, 255, 22, 137, 139, 189, 111, 219, 177>>>>,
   <<<<119, 114, 111, 110, 103>>, <<26>>,
     <<103, 31, 54, 62, 167, 130, 36, 110, 14, 215, 148, 107, 11, 84, 211, 57, 46, 223, 32, 187, 135, 229, 240, 211, 157, 161, 228, 67, 155, 121, 181, 205>>>>,
   <<<<119, 114, 111, 110, 103>>, <<27>>,
     <<134, 134, 146, 87, 185, 51, 20, 25, 1, 139, 91, 246, 204, 154, 18, 77, 210, 103, 3, 11, 19, 130, 63, 177, 122, 151, 53, 134, 214, 117, 19, 22>>>>,
   <<<<119, 114, 111, 110, 103>>, <<28>>,
     <<108, 125, 188, 184, 103, 48, 53, 148, 45, 226, 130, 224, 77, 62, 167, 247, 20, 42, 163, 44, 99, 178, 18, 222, 206, 138, 233, 248, 96, 247, 56, 235>>>>,
   <<<<119, 114, 111, 110, 103>>, <<29>>,
     <<18, 19, 123, 240, 230, 103, 139, 49, 221, 179, 26, 112, 1, 188, 135, 91, 175, 60, 24, 222, 210, 98, 206, 215, 46, 79, 177, 90, 82, 103, 100, 16>>>>,
   <<<<119, 114, 111, 110, 103>>, <<30>>,
     <<5, 69, 114, 85, 1, 126, 224, 130, 50, 215, 198, 142, 208, 134, 55, 147, 236, 55, 245, 227, 219, 145, 158, 119, 139, 34, 135, 59, 161, 244, 8, 235>>>>,
   <<<<119, 114, 111, 110, 103>>, <<31>>,
     <<62, 232, 141, 227, 230, 189, 77, 124, 9, 125, 128, 95, 238, 106, 152, 44, 34, 37, 236, 82, 74, 43, 175, 183, 44, 78, 65, 180, 238, 128, 61, 134>>>>,
   <<<<119, 114, 111, 110, 103>>, <<32>>,
     <<228, 190, 1, 234, 112, 15, 148, 192, 90, 178, 21, 246, 212, 219, 81, 0, 189, 225, 109, 228, 83, 115, 93, 24, 154, 253, 4, 226, 46, 181, 121, 77>>>>,
   <<<<119, 114, 111, 110, 103>>, <<33>>,
     <<102, 88, 166, 245, 185, 140, 39, 190, 79, 134, 34, 95, 97, 230, 225, 165, 208, 167, 208, 43, 73, 255, 9, 60, 232, 82, 210, 94, 30, 49, 170, 228>>>>,
   <<<<119, 114, 111, 110, 103>>, <<34>>,
     <<249, 5, 78, 83, 84, 131, 254, 214, 62, 157, 16, 27, 6, 89, 28, 239, 173, 175, 72, 254, 82, 148, 114, 224, 90, 250, 249, 201, 93, 7, 31, 137>>>>,
   <<<<119, 114, 111, 110, 103>>, <<35>>,
     <<215, 77, 150, 179, 241, 225, 167, 54, 151, 110, 254, 28, 192, 174, 93, 152, 223, 179, 2, 138, 239, 218, 2, 121, 161, 172, 181, 218, 89, 75, 28, 234>>>>,
   <<<<119, 114, 111, 110, 103>>, <<36>>,
     <<235, 191, 69, 39, 169, 34, 140, 72, 132, 18, 119, 212, 137, 39, 36, 247, 23, 94, 26, 231, 90, 240, 206, 255, 104, 44, 71, 147, 219, 98, 91, 140>>>>,
   <<<<119, 114, 111, 110, 103>>, <<37>>,
     <<124, 238, 27, 24, 18, 202, 197, 66, 224, 247, 208, 22, 83, 188, 50, 61, 130, 222, 103, 54, 5, 7, 223, 148, 146, 109, 102, 161, 161, 169, 109, 50>>>>,
   <<<<119, 114, 111, 110, 103>>, <<38>>,
     <<10, 202, 135, 197, 76, 88, 53, 122, 233, 120, 235, 69, 163, 93, 2, 212, 254, 249, 170, 162, 14, 164, 237, 151, 166, 39, 121, 48, 18, 88, 142, 216>>>>,
   <<<<119, 114, 111, 110, 103>>, <<39>>,
     <<39, 177, 163, 82, 224, 72, 99, 110, 232, 127, 79, 78, 1, 94, 111, 126, 44, 49, 60, 151, 150, 185, 249, 20, 157, 25, 73, 124, 22, 49, 210, 138>>>>,
   <<<<119, 114, 111, 110, 103>>, <<40>>,
     <<229, 83, 172, 25, 234, 65, 142, 94, 221, 182, 142, 9, 63, 162, 75, 41, 254, 88, 200, 53, 126, 15, 174, 167, 13, 122, 62, 121, 65, 113, 50, 15>>>>,
   <<<<119, 114, 111, 110, 103>>, <<41>>,
     <<31, 216, 99, 31, 220, 13, 142, 41, 138, 125, 142, 76, 147, 243, 199, 191, 214, 61, 41, 152, 20, 186, 196, 166, 100, 0, 240, 115, 44, 227, 66, 208>>>>,
   <<<<119, 114, 111, 110, 103>>, <<42>>,
     <<83, 224, 120, 23, 127, 60, 203, 182, 102, 53, 12, 85, 57, 187, 65, 143, 218, 4, 21, 252, 219, 108, 62, 196, 85, 66, 106, 83, 225, 66, 137, 141>>>>,
   <<<<119, 114, 111, 110, 103>>, <<43>>,
     <<103, 113, 104, 97, 52, 191, 35, 200, 130, 179, 206, 37, 221, 202, 41, 207, 30, 190, 45, 14, 109, 47, 96, 117, 4, 141, 55, 234, 199, 39, 67, 134>>>>,
   <<<<119, 114, 111, 110, 103>>, <<44>>,
     <<3, 77, 92, 41, 234, 56, 167, 249, 154, 50, 31, 179, 27, 122, 224, 196, 15, 201, 77, 105, 243, 90, 125, 178, 88, 59, 172, 158, 189, 249, 161, 129>>>>,
   <<<<119, 114, 111, 110, 103>>, <<45>>,
     <<93, 134, 186, 13, 171, 128, 20, 28, 172, 32, 41, 72, 157, 142, 10, 199, 101, 190, 21, 238, 166, 219, 106, 144, 159, 93, 149, 45, 214, 72, 138, 126>>>>,
   <<<<119, 114, 111, 110, 103>>, <<46>>,
     <<20, 60, 7, 247, 107, 6, 17, 131, 197, 213, 236, 207, 30, 187, 122, 47, 183, 76, 144, 30, 187, 4, 32, 167, 103, 226, 156, 253, 196, 133, 60, 145>>>>,
   <<<<119, 114, 111, 110, 103>>, <<47>>,
     <<53, 198, 200, 227, 118, 255, 94, 98, 153, 59, 95, 243, 165, 34, 81, 159, 148, 214, 250, 248, 219, 193, 199, 252, 181, 49, 89, 192, 85, 61, 102, 153>>>>,
   <<<<119, 114, 111, 110, 103>>, <<48>>,
     <<208, 15, 131, 115, 149, 47, 254, 100, 211, 254, 114, 94, 175, 251, 246, 178, 180, 226, 84, 16, 65, 28, 54, 247, 148, 51, 229, 150, 52, 67, 124, 194>>>>,
   <<<<119, 114, 111, 110, 103>>, <<>>,
     <<153, 42, 173, 211, 137, 140, 33, 51, 115, 9, 156, 246, 162, 207, 88, 166, 129, 254, 82, 246, 201, 110, 45, 135, 86, 228, 169, 246, 211, 19, 149, 159>>>>,
   <<<<119, 114, 111, 110, 103>>, <<255>>,
     <<103, 243, 48, 21, 137, 134, 121, 160, 175, 10, 102, 235, 13, 127, 192, 135, 34, 4, 112, 202, 222, 102, 219, 60, 78, 75, 218, 20, 100, 69, 79, 29>>>>,
   <<<<119, 114, 111, 110, 103>>, <<0, 0>>,
     <<113, 57, 141, 236, 2, 117, 51, 45, 227, 60, 203, 101, 91, 225, 228, 2, 117, 97, 8, 183, 144, 105, 111, 118, 119, 52, 196, 164, 243, 246, 2, 30>>>>,
   <<<<119, 114, 111, 110, 103>>, <<0, 1>>,
     <<44, 217, 176, 237, 46, 61, 241, 41, 123, 252, 183, 5, 229, 79, 3, 46, 157, 42, 144, 145, 191, 27, 115, 68, 216, 178, 98, 141, 96, 244, 212, 213>>>>,
   <<<<119, 114, 111, 110, 103>>, <<0, 255>>,
     <<132, 57, 247, 229, 107, 10, 173, 189, 149, 219, 45, 49, 19, 224, 160, 51, 146, 100, 36, 116, 2, 255, 123, 219, 48, 69, 245, 62, 96, 43, 140, 242>>>>,
   <<<<119, 114, 111, 110, 103>>, <<1, 0>>,
     <<242, 252, 93, 224, 30, 179, 66, 89, 221, 244, 12, 113, 52, 219, 212, 91, 200, 87, 142, 143, 63, 171, 102, 108, 233, 38, 239, 43, 70, 200, 138, 68>>>>,
   <<<<119, 114, 111, 110, 103>>, <<1, 1>>,
     <<100, 208, 133, 30, 204, 12, 232, 192, 35, 8, 180, 35, 247, 97, 169, 252, 249, 181, 207, 242, 5, 212, 126, 65, 37, 142, 199, 73, 164, 40, 242, 19>>>>,
   <<<<119, 114, 111, 110, 103>>, <<1, 255>>,
     <<241, 146, 50, 69, 135, 52, 158, 17, 56, 181, 85, 248, 139, 164, 78, 52, 118, 205, 63, 175, 208, 150, 88, 128, 188, 187, 41, 76, 43, 225, 12, 194>>>>,
   <<<<119, 114, 111, 110, 103>>, <<255, 0>>,
     <<214, 42, 180, 48, 237, 255, 198, 92, 102, 205, 124, 27, 185, 185, 233, 252, 167, 8, 165, 158, 76, 144, 100, 165, 132, 202, 162, 85, 78, 145, 11, 189>>>>,
   <<<<119, 114, 111, 110, 103>>, <<255, 1>>,
     <<137, 159, 187, 132, 30, 124, 202, 178, 214, 243, 252, 98, 179, 93, 75, 244, 48, 115, 178, 51, 35, 13, 146, 204, 45, 31, 90, 26, 98, 148, 45, 163>>>>,
   <<<<119, 114, 111, 110, 103>>, <<255, 255>>,
     <<144, 123, 4, 44, 72, 150, 170, 49, 22, 199, 205, 20, 181, 123, 77, 17, 85, 157, 149, 177, 33, 116, 104, 225, 229, 226, 108, 89, 158, 36, 148, 105>>>>,
   <<<<119, 114, 111, 110, 103>>, <<0, 0, 0>>,
     <<194, 107, 28, 92, 185, 176, 1, 176, 14, 37, 166, 5, 224, 188, 178, 142, 19, 201, 0, 23, 124, 236, 0, 13, 143, 255, 159, 212, 11, 203, 20, 245>>>>,
   <<<<119, 114, 111, 110, 103>>, <<0, 0, 1>>,
     <<222, 18, 129, 150, 244, 203, 64, 65, 34, 1, 148, 224, 171, 180, 238, 168, 14, 136, 225, 60, 52, 97, 126, 65, 124, 107, 43, 227, 233, 199, 18, 237>>>>,
   <<<<119, 114, 111, 110, 103>>, <<0, 0, 255>>,
     <<185, 123, 81, 243, 47, 110, 76, 60, 237, 16, 110, 112, 17, 20, 122, 112, 239, 141, 205, 104, 15, 94, 204, 253, 147, 78, 79, 10, 240, 39, 85, 91>>>>,
   <<<<119, 114, 111, 110, 103>>, <<0, 1, 0>>,
     <<180, 81, 117, 26, 93, 50, 6, 118, 126, 52, 77, 78, 108, 125, 239, 141, 220, 32, 172, 80, 202, 57, 15, 202, 154, 113, 47, 34, 193, 246, 205, 100>>>>,
   <<<<119, 114, 111, 110, 103>>, <<0, 1, 1>>,
     <<185, 201, 183, 154, 68, 4, 30, 183, 79, 8, 57, 23, 177, 112, 16, 54, 50, 11, 49, 77, 55, 237, 13, 34, 47, 65, 160, 10, 12, 73, 143, 209>>>>,
   <<<<119, 114, 111, 110, 103>>, <<0, 1, 255>>,
     <<8, 83, 56, 99, 222, 93, 29, 147, 232, 65, 245, 184, 2, 29, 209, 94, 214, 40, 145, 152, 9, 158, 50, 50, 134, 52, 234, 254, 233, 244, 122, 68>>>>,
   <<<<119, 114, 111, 110, 103>>, <<0, 255, 0>>,
     <<235, 80, 89, 53, 204, 197, 139, 248, 202, 220, 157, 44, 131, 236, 104, 85, 165, 7, 217, 51, 201, 57, 20, 143, 167, 54, 107, 251, 23, 139, 73, 69>>>>,
   <<<<119, 114, 111, 110, 103>>, <<0, 255, 1>>,
     <<215, 126, 61, 125, 206, 195, 104, 152, 95, 97, 255, 93, 91, 89, 47, 195, 14, 216, 48, 101, 9, 141, 30, 124, 164, 4, 26, 192, 1, 200, 23, 230>>>>,
   <<<<119, 114, 111, 110, 103>>, <<0, 255, 255>>,
     <<7, 131, 81, 42, 25, 85, 118, 99, 195, 101, 107, 112, 57, 250, 243, 116, 253, 39, 116, 139, 236, 86, 190, 159, 64, 107, 10, 116, 96, 7, 3, 38>>>>,
   <<<<119, 114, 111, 110, 103>>, <<1, 0, 0>>,
     <<182, 203, 47, 93, 160, 117, 159, 175, 236, 168, 225, 91, 224, 236, 40, 231, 108, 190, 35, 104, 122, 62, 70, 6, 139, 130, 233, 207, 151, 127, 153, 89>>>>,
   <<<<119, 114, 111, 110, 103>>, <<1, 0, 1>>,
     <<101, 16, 0, 222, 231, 219, 41, 218, 4, 74, 173, 187, 115, 18, 68, 234, 9, 213, 39, 138, 249, 25, 110, 26, 253, 73, 6, 42, 106, 38, 214, 195>>>>,
   <<<<119, 114, 111, 110, 103>>, <<1, 0, 255>>,
     <<247, 198, 212, 44, 6, 238, 221, 198, 114, 128, 65, 201, 17, 253, 113, 199, 196, 26, 234, 205, 141, 175, 136, 79, 212, 166, 132, 174, 145, 5, 25, 131>>>>,
   <<<<119, 114, 111, 110, 103>>, <<1, 1, 0>>,
     <<250, 21, 85, 205, 168, 31, 184, 52, 162, 221, 130, 50, 20, 149, 83, 45, 232, 172, 19, 206, 84, 6, 128, 195, 28, 217, 19, 55, 31, 255, 46, 138>>>>,
   <<<<119, 114, 111, 110, 103>>, <<1, 1, 1>>,
     <<170, 72, 252, 211, 124, 23, 170, 12, 100, 176, 48, 14, 155, 166, 175, 239, 241, 48, 151, 234, 1, 132, 223, 128, 149, 70, 41, 85, 244, 241, 48, 47>>>>,
   <<<<119, 114, 111, 110, 103>>, <<1, 1, 255>>,
     <<186, 213, 118, 23, 177, 143, 130, 25, 149, 4, 63, 85, 5, 197, 137, 48, 73, 49, 150, 136, 137, 126, 182, 115, 149, 104, 179, 85, 247, 115, 26, 225>>>>,
   <<<<119, 114, 111, 110, 103>>, <<1, 255, 0>>,
     <<149, 143, 86, 249, 165, 92, 123, 53, 204, 6, 105, 38, 199, 101, 237, 119, 169, 242, 136, 164, 6, 4, 130, 131, 182, 245, 2, 232, 154, 250, 56, 199>>>>,
   <<<<119, 114, 111, 110, 103>>, <<1, 255, 1>>,
     <<96, 133, 176, 80, 88, 224, 157, 106, 195, 234, 163, 141, 103, 165, 89, 117, 203, 90, 114, 175, 2, 234, 190, 98, 142, 115, 123, 143, 176, 199, 151, 75>>>>,
   <<<<119, 114, 111, 110, 103>>, <<1, 255, 255>>,
     <<247, 16, 216, 134, 69, 179, 20, 60, 205, 255, 106, 2, 115, 42, 76, 26, 58, 222, 69, 251, 240, 253, 189, 139, 113, 142, 43, 250, 66, 1, 116, 138>>>>,
   <<<<119, 114, 111, 110, 103>>, <<255, 0, 0>>,
     <<40, 204, 183, 126, 120, 68, 147, 133, 55, 40, 215, 105, 115, 31, 78, 20, 219, 186, 141, 130, 187, 231, 224, 244, 183, 106, 18, 117, 144, 119, 208, 21>>>>,
   <<<<119, 114, 111, 110, 103>>, <<255, 0, 1>>,
     <<99, 201, 0, 5, 186, 229, 238, 110, 77, 139, 64, 168, 136, 224, 217, 216, 248, 78, 66, 48, 33, 41, 3, 220, 38, 99, 173, 186, 85, 245, 58, 99>>>>,
   <<<<119, 114, 111, 110, 103>>, <<255, 0, 255>>,
     <<238, 54, 64, 75, 49, 88, 209, 206, 215, 136, 220, 242, 58, 40, 129, 112, 182, 30, 212, 125, 27, 231, 44, 123, 211, 202, 57, 88, 45, 35, 36, 174>>>>,
   <<<<119, 114, 111, 110, 103>>, <<255, 1, 0>>,
     <<212, 155, 230, 33, 43, 119, 54, 243, 188, 219, 204, 117, 8, 225, 33, 94, 178, 196, 7, 101, 163, 198, 58, 118, 153, 146, 63, 5, 90, 185, 157, 134>>>>,
   <<<<119, 114, 111, 110, 103>>, <<255, 1, 1>>,
     <<2, 13, 86, 77, 201, 196, 202, 73, 175, 213, 149, 33, 222, 82, 227, 13, 52, 57, 69, 211, 142, 107, 231, 206, 122, 128, 155, 152, 23, 0, 230, 194>>>>,
   <<<<119, 114, 111, 110, 103>>, <<255, 1, 255>>,
     <<52, 86, 7, 76, 95, 82, 29, 29, 115, 36, 119, 165, 138, 90, 91, 63, 66, 158, 10, 82, 202, 6, 9, 163, 163, 246, 231, 99, 71, 197, 66, 49>>>>,
   <<<<119, 114, 111, 110, 103>>, <<255, 255, 0>>,
     <<85, 104, 188, 50, 56, 93, 216, 38, 206, 171, 40, 208, 209, 106, 77, 12, 254, 201, 225, 109, 37, 21, 22, 164, 101, 240, 42, 37, 11, 239, 75, 105>>>>,
   <<<<119, 114, 111, 110, 103>>, <<255, 255, 1>>,
     <<93, 138, 150, 161, 218, 200, 176, 177, 191, 14, 83, 227, 60, 188, 220, 238, 67, 109, 199, 150, 116, 62, 9, 34, 57, 26, 184, 255, 127, 49, 57, 219>>>>,
   <<<<119, 114, 111, 110, 103>>, <<255, 255, 255>>,
     <<194, 220, 164, 212, 124, 231, 194, 179, 221, 128, 80, 107, 175, 29, 6, 132, 120, 87, 193, 8, 56, 254, 147, 222, 189, 93, 75, 82, 108, 102, 5, 65>>>> >>

\* An entry of KnownDigests holds the signature Rfc2104 computes.
DigestAgrees(e) == Rfc2104(e[1], e[2]) = e[3]

\* KnownDigests as a function of <<key bytes, body>>.
DigestOf ==
  [x \in {<<KnownDigests[i][1], KnownDigests[i][2]>> : i \in DOMAIN KnownDigests} |->
     KnownDigests[CHOOSE i \in DOMAIN KnownDigests :
                     <<KnownDigests[i][1], KnownDigests[i][2]>> = x][3]]

\* Rfc2104(key, data), read from KnownDigests where the table holds it.
Digest(key, data) ==
  IF <<key, data>> \in DOMAIN DigestOf THEN DigestOf[<<key, data>>]
  ELSE Rfc2104(key, data)

\* What a call returns with when crypto.subtle.importKey rejects.
DataError == <<"DataError">>

\* crypto.subtle.importKey("raw", key, { name: "HMAC", hash: "SHA-256" }, ...)
\* (main.ts 75-81) rejects a key of no bytes with a DataError.
ImportKeyRejects(key) == Len(key) = 0

\* importKey and crypto.subtle.sign("HMAC", k, data) for the key imported from
\* the bytes key (main.ts 75-83): the 32 bytes of the signature.
HmacSign(key, data) ==
  IF ImportKeyRejects(key) THEN DataError ELSE Digest(key, data)

\* The UTF-8 bytes of one character: one byte for ASCII, three for the em
\* dash (U+2014) and the ellipsis (U+2026).
Utf8(c) ==
  CASE c = "emdash" -> <<226, 128, 148>>
    [] c = "ellipsis" -> <<226, 128, 166>>
    [] OTHER -> <<CharCode(c)>>

\* new TextEncoder().encode(key)
RECURSIVE TextEncode(_)
TextEncode(s) == IF s = <<>> THEN <<>> ELSE Utf8(Head(s)) \o TextEncode(Tail(s))

\* b.toString(16).padStart(2, "0")
HexByte(b) == <<HexDigits[(b \div 16) + 1], HexDigits[(b % 16) + 1]>>

\* Array.from(bytes).map((b) => b.toString(16).padStart(2, "0")).join("")
HexOfBytes(bytes) == Concat([i \in 1..Len(bytes) |-> HexByte(bytes[i])])

\* The hexadecimal text of every signature of DigestOf.
KnownHex == [x \in DOMAIN DigestOf |-> HexOfBytes(Digest(x[1], x[2]))]

\* Rfc2104(key, data) as 64 hexadecimal digits.
HexOfDigest(key, data) ==
  IF <<key, data>> \in DOMAIN KnownHex THEN KnownHex[<<key, data>>]
  ELSE HexOfBytes(Digest(key, data))

\* hmacSha256Hex for the bytes of its key (main.ts 75-85).
HexOfSign(key, data) ==
  IF ImportKeyRejects(key) THEN DataError
  ELSE IF <<key, data>> \in DOMAIN KnownHex THEN KnownHex[<<key, data>>]
  ELSE HexOfBytes(HmacSign(key, data))

\* hmacSha256Hex (main.ts 74-86): the signature as 64 hexadecimal digits; the
\* call throws a DataError when the key is the empty text.
hmacSha256Hex(key, payload) == HexOfSign(TextEncode(key), payload)

Sha256Prefix == <<"s", "h", "a", "2", "5", "6", "=">>

\* for (i...) ok |= their.charCodeAt(i) ^ ours.charCodeAt(i)
RECURSIVE XorAccumulate(_, _, _)
XorAccumulate(their, ours, ok) ==
  IF their = <<>> \/ ok < 0 THEN ok
  ELSE XorAccumulate(Tail(their), Tail(ours),
                     BitOr(ok, BitXor(CharCode(Head(their)), CharCode(Head(ours)))))

\* The variant of the loop that stops at the first position that differs.
RECURSIVE XorPositions_StopsAtMismatch(_, _)
XorPositions_StopsAtMismatch(their, ours) ==
  IF their = <<>> THEN 0
  ELSE IF Head(their) # Head(ours) THEN 1
  ELSE 1 + XorPositions_StopsAtMismatch(Tail(their), Tail(ours))

\* How many times the body of the loop runs: once for every i below
\* their.length, the loop has no break.
RECURSIVE XorPositions(_, _)
XorPositions(their, ours) ==
  IF their = <<>> THEN 0
  ELSE 1 + XorPositions(Tail(their), Tail(ours))

\* The positions verifyGitHubSignature compares: none when it returns before
\* the loop.
ComparedPositions(secret, sig, raw) ==
  IF sig = Null \/ sig = <<>> \/ ~StartsWith(sig, Sha256Prefix) THEN 0
  ELSE LET their == Slice(sig, Len(Sha256Prefix), Len(sig))
           ours == hmacSha256Hex(secret, raw)
       IN  IF Len(their) # Len(ours) THEN 0
           ELSE XorPositions(their, ours)

verifyGitHubSignature_LengthOnly(secret, sig, raw) ==
  IF sig = Null \/ sig = <<>> \/ ~StartsWith(sig, Sha256Prefix) THEN FALSE
  ELSE Len(Slice(sig, Len(Sha256Prefix), Len(sig))) = Len(hmacSha256Hex(secret, raw))

\* verifyGitHubSignature (main.ts 131-141); with an empty secret the await of
\* hmacSha256Hex throws and so does the call.
verifyGitHubSignature(secret, sig, raw) ==
  IF sig = Null \/ sig = <<>> \/ ~StartsWith(sig, Sha256Prefix) THEN FALSE
  ELSE IF ImportKeyRejects(TextEncode(secret)) THEN DataError
  ELSE LET their == Slice(sig, Len(Sha256Prefix), Len(sig))
           ours == hmacSha256Hex(secret, raw)
       IN  IF Len(their) # Len(ours) THEN FALSE
           ELSE XorAccumulate(their, ours, 0) = 0

\* ------------------------------------------------------------------------
\* hasSemver, shortSha, fitPost (main.ts 171-177)
\* ------------------------------------------------------------------------
IsWordAt(s, p) == p >= 1 /\ p <= Len(s) /\ s[p] \in WordChars

\* \b at position p (between character p-1 and character p)
WordBoundary(s, p) == IsWordAt(s, p - 1) # IsWordAt(s, p)

\* (0|[1-9]\d*) starting at p: the positions where a match can end
NumEnds_LeadingZeros(s, p) ==
  IF p > Len(s) THEN {}
  ELSE IF s[p] \in Digits
       THEN {q \in (p + 1)..(Len(s) + 1) : \A k \in (p + 1)..(q - 1) : s[k] \in Digits}
  ELSE {}

NumEnds(s, p) ==
  IF p > Len(s) THEN {}
  ELSE IF s[p] = "0" THEN {p + 1}
  ELSE IF s[p] \in NonZeroDigits
       THEN {q \in (p + 1)..(Len(s) + 1) : \A k \in (p + 1)..(q - 1) : s[k] \in Digits}
  ELSE {}

\* [0-9A-Za-z-]+ starting at p
IdentEnds(s, p) ==
  {q \in (p + 1)..(Len(s) + 1) : \A k \in p..(q - 1) : s[k] \in IdentChars}

\* one literal character c at each position of P
LitEnds(s, P, c) == {p + 1 : p \in {x \in P : x <= Len(s) /\ s[x] = c}}

\* [0-9A-Za-z-]+(?:\.[0-9A-Za-z-]+)* starting at each position of P
RECURSIVE DotIdentClosure(_, _, _)
DotIdentClosure(s, E, fuel) ==
  LET more == E \cup UNION {IdentEnds(s, q) : q \in LitEnds(s, E, ".")}
  IN  IF fuel = 0 \/ more = E THEN E ELSE DotIdentClosure(s, more, fuel - 1)

DotIdentEnds(s, P) ==
  DotIdentClosure(s, UNION {IdentEnds(s, p) : p \in P}, Len(s))

\* the version pattern without its two \b, starting at p
SemverEnds(s, p) ==
  LET v == {p} \cup LitEnds(s, {p}, "v") \cup LitEnds(s, {p}, "V")
      major == UNION {NumEnds(s, q) : q \in v}
      minor == UNION {NumEnds(s, q) : q \in LitEnds(s, major, ".")}
      patch == UNION {NumEnds(s, q) : q \in LitEnds(s, minor, ".")}
      pre == patch \cup DotIdentEnds(s, LitEnds(s, patch, "-"))
      build == pre \cup DotIdentEnds(s, LitEnds(s, pre, "+"))
  IN  build

hasSemver(msg) ==
  \E p \in 1..(Len(msg) + 1) :
     /\ WordBoundary(msg, p)
     /\ \E q \in SemverEnds(msg, p) : WordBoundary(msg, q)

shortSha(sha) == Slice(sha, 0, 7)

POST_CHAR_LIMIT == 300

fitPost_NoEllipsis(s, max) ==
  IF Len(s) <= max THEN s ELSE Slice(s, 0, max)

fitPost(s, max) ==
  IF Len(s) <= max THEN s ELSE Slice(s, 0, max - 1) \o <<"ellipsis">>

\* s.toLowerCase() (ASCII letters)
ToLowerChar(c) ==
  IF \E i \in 34..59 : AsciiChars[i] = c
  THEN AsciiChars[(CHOOSE i \in 34..59 : AsciiChars[i] = c) + 32]
  ELSE c

ToLower(s) == [i \in 1..Len(s) |-> ToLowerChar(s[i])]

\* v ?? d
Coalesce(v, d) == IF v = Null \/ v = Undefined THEN d ELSE v

AtPublish == <<"@", "p", "u", "b", "l", "i", "s", "h">>

\* \B at position p
NotWordBoundary(s, p) == ~WordBoundary(s, p)

\* /\B@publish\b/i.test(msg)
hasPublishKeyword_Substring(msg) == Includes(ToLower(msg), AtPublish)

hasPublishKeyword(msg) ==
  \E p \in 1..(Len(msg) + 1) :
     /\ NotWordBoundary(msg, p)
     /\ ToLower(Slice(msg, p - 1, p - 1 + Len(AtPublish))) = AtPublish
     /\ WordBoundary(msg, p + Len(AtPublish))

\* ------------------------------------------------------------------------
\* Text helpers of the command-line poster (part_001 154-189)
\* ------------------------------------------------------------------------
\* c.toUpperCase() (ASCII letters)
ToUpperChar(c) ==
  IF \E i \in 66..91 : AsciiChars[i] = c
  THEN AsciiChars[(CHOOSE i \in 66..91 : AsciiChars[i] = c) - 32]
  ELSE c

HexChars ==
  Digits \cup {"a", "b", "c", "d", "e", "f"} \cup {"A", "B", "C", "D", "E", "F"}

\* [0-9a-f]{7,40}\b with flag i, starting at p: the lengths that match
HashLens(s, p) ==
  {n \in 7..40 : /\ p + n - 1 <= Len(s)
                 /\ \A k \in p..(p + n - 1) : s[k] \in HexChars
                 /\ WordBoundary(s, p + n)}

Longest(S) == CHOOSE n \in S : \A m \in S : m <= n

Least(S) == CHOOSE n \in S : \A m \in S : n <= m

\* The positions from p on where \b[0-9a-f]{7,40}\b matches.
HashStarts(s, p) ==
  {q \in p..Len(s) : WordBoundary(s, q) /\ HashLens(s, q) # {}}

\* input.replace(/\b[0-9a-f]{7,40}\b/gi, "") from position p on: the text up
\* to the next match, then the rest after the match.
RECURSIVE RemoveHashes(_, _)
RemoveHashes(s, p) ==
  IF HashStarts(s, p) = {} THEN Slice(s, p - 1, Len(s))
  ELSE LET q == Least(HashStarts(s, p))
       IN  Slice(s, p - 1, q - 1) \o RemoveHashes(s, q + Longest(HashLens(s, q)))

\* The first position from p on that holds no white space.
SkipSpaces(s, p) ==
  Least({q \in p..(Len(s) + 1) : q > Len(s) \/ s[q] \notin WhiteSpace})

\* The positions from p on where \s{2,} matches.
SpaceRuns(s, p) ==
  {q \in p..(Len(s) - 1) : s[q] \in WhiteSpace /\ s[q + 1] \in WhiteSpace}

\* noShas.replace(/\s{2,}/g, " ") from position p on
RECURSIVE CollapseSpaces(_, _)
CollapseSpaces(s, p) ==
  IF SpaceRuns(s, p) = {} THEN Slice(s, p - 1, Len(s))
  ELSE LET q == Least(SpaceRuns(s, p))
       IN  Slice(s, p - 1, q - 1) \o <<" ">> \o CollapseSpaces(s, SkipSpaces(s, q))

stripCommitHashes(input) == Trim(CollapseSpaces(RemoveHashes(input, 1), 1))

\* The brand names of topicToHashtag, keyed by their lower-case form.
SpecialCases ==
  {<<"T", "y", "p", "e", "S", "c", "r", "i", "p", "t">>,
   <<"J", "a", "v", "a", "S", "c", "r", "i", "p", "t">>,
   <<"N", "o", "d", "e", "J", "S">>,
   <<"G", "i", "t", "H", "u", "b">>,
   <<"W", "e", "b", "A", "s", "s", "e", "m", "b", "l", "y">>,
   <<"P", "o", "s", "t", "g", "r", "e", "S", "Q", "L">>,
   <<"M", "o", "n", "g", "o", "D", "B">>,
   <<"G", "r", "a", "p", "h", "Q", "L">>}

\* arr.join(sep)
RECURSIVE Join(_, _)
Join(arr, sep) ==
  IF arr = <<>> THEN <<>>
  ELSE IF Len(arr) = 1 THEN arr[1]
  ELSE arr[1] \o sep \o Join(Tail(arr), sep)

\* word.charAt(0).toUpperCase() + word.slice(1)
Capitalize(word) ==
  IF word = <<>> THEN <<>> ELSE <<ToUpperChar(word[1])>> \o Tail(word)

\* specialCases[lowerTopic] for a key the object literal does not list: the
\* lookup also finds what every object inherits from Object.prototype, and
\* two of those names are all lower case; converted to a string by "#" + v.
InheritedCase(lowerTopic) ==
  CASE lowerTopic = <<"c", "o", "n", "s", "t", "r", "u", "c", "t", "o", "r">> ->
         <<"f", "u", "n", "c", "t", "i", "o", "n", " ", "O", "b", "j", "e", "c", "t",
           "(", ")", " ", "{", " ", "[", "n", "a", "t", "i", "v", "e", " ", "c", "o",
           "d", "e", "]", " ", "}">>
    [] lowerTopic = <<"_", "_", "p", "r", "o", "t", "o", "_", "_">> ->
         <<"[", "o", "b", "j", "e", "c", "t", " ", "O", "b", "j", "e", "c", "t", "]">>
    [] OTHER -> Undefined

topicToHashtag(topic) ==
  LET lowerTopic == ToLower(topic)
      words == Split(topic, "-")
  IN  IF \E b \in SpecialCases : ToLower(b) = lowerTopic
      THEN <<"#">> \o (CHOOSE b \in SpecialCases : ToLower(b) = lowerTopic)
      ELSE IF InheritedCase(lowerTopic) # Undefined
      THEN <<"#">> \o InheritedCase(lowerTopic)
      ELSE <<"#">> \o Join([i \in 1..Len(words) |-> Capitalize(words[i])], <<>>)

\* arr.filter(Boolean) for an array of strings
RECURSIVE FilterNonEmpty(_)
FilterNonEmpty(arr) ==
  IF arr = <<>> THEN <<>>
  ELSE IF Head(arr) = <<>> THEN FilterNonEmpty(Tail(arr))
  ELSE <<Head(arr)>> \o FilterNonEmpty(Tail(arr))

\* firstEnv(env, keys, fallback): the first variable of keys that is set and
\* not empty; an unset variable has the value Undefined.
RECURSIVE firstEnv(_, _, _)
firstEnv(e, keys, fallback) ==
  IF keys = <<>> THEN fallback
  ELSE IF e[Head(keys)] # Undefined /\ Len(e[Head(keys)]) > 0 THEN e[Head(keys)]
  ELSE firstEnv(e, Tail(keys), fallback)

\* ------------------------------------------------------------------------
\* Request bodies
\* ------------------------------------------------------------------------
\* A record-valued field that is null in the JSON payload.
NullRec == [null |-> TRUE]

ShaA ==
  <<"8", "6", "f", "7", "e", "4", "3", "7", "f", "a", "a", "5", "a", "7", "f", "c",
    "e", "1", "5", "d", "1", "d", "d", "c", "b", "9", "e", "a", "e", "a", "e", "a",
    "3", "7", "7", "6", "6", "7", "b", "8">>
ShaB ==
  <<"e", "9", "d", "7", "1", "f", "5", "e", "e", "7", "c", "9", "2", "d", "6", "d",
    "c", "9", "e", "9", "2", "f", "f", "d", "a", "d", "1", "7", "b", "8", "b", "d",
    "4", "9", "4", "1", "8", "f", "9", "8">>

ShaC ==
  <<"8", "4", "a", "5", "1", "6", "8", "4", "1", "b", "a", "7", "7", "a", "5", "b",
    "4", "6", "4", "8", "d", "e", "2", "c", "d", "0", "d", "f", "c", "b", "3", "0",
    "e", "a", "4", "6", "d", "b", "b", "4">>

RefsHeads == <<"r", "e", "f", "s", "/", "h", "e", "a", "d", "s", "/">>
GitHubUrl == <<"h", "t", "t", "p", "s", ":", "/", "/", "g", "i", "t", "h", "u", "b", ".", "c", "o", "m", "/">>
BranchMain == <<"m", "a", "i", "n">>
BranchRel == <<"r", "e", "l">>

RepoTable == << <<"o", "/", "a">>, <<"x", "/", "a">> >>
RefTable ==
  << RefsHeads \o BranchMain,
     RefsHeads \o BranchRel,
     <<"r", "e", "f", "s", "/", "t", "a", "g", "s", "/", "m", "a", "i", "n">>,
     RefsHeads \o BranchMain \o <<"2">> >>
CommitTable ==
  << [id |-> ShaA,
      message |-> <<"f", "i", "x", ":", " ", "r", "e", "l", "e", "a", "s", "e", " ",
                    "v", "1", ".", "2", ".", "3", "\n", "\n", "b", "o", "d", "y">>,
      author |-> [name |-> <<"A", "l">>]],
     [id |-> ShaB,
      message |-> <<"v", "2", ".", "0", ".", "0", " ", "o", "f", " ", "8", "6", "f", "7", "e", "4", "3">>,
      author |-> NullRec],
     [id |-> ShaA,
      message |-> <<"d", "o", "c", "s", ":", " ", "t", "y", "p", "o">>,
      author |-> [name |-> <<"A", "l">>]],
     NullRec,
     [id |-> ShaB,
      message |-> <<"s", "h", "i", "p", " ", "@", "P", "u", "b", "l", "i", "s", "h",
                    "\n", "\n", "n", "o", "t", "e", "s">>,
      author |-> [name |-> <<"A", "l">>]],
     [id |-> ShaC,
      message |-> <<"f", "i", "x", ":", " ", "r", "e", "l", "e", "a", "s", "e", " ", "v", "1", ".", "2", ".", "3">>,
      author |-> [name |-> <<"A", "l">>]] >>

NPayloads == Len(RepoTable) * Len(RefTable) * Len(CommitTable)

\* The i-th push payload of the table (i in 1..NPayloads): commit, then ref,
\* then repository vary with i.
PayloadAt(i) ==
  LET c == ((i - 1) % Len(CommitTable)) + 1
      f == (((i - 1) \div Len(CommitTable)) % Len(RefTable)) + 1
      o == ((i - 1) \div (Len(CommitTable) * Len(RefTable))) + 1
  IN  [ref |-> RefTable[f],
       repository |-> [full_name |-> RepoTable[o],
                       html_url |-> GitHubUrl \o RepoTable[o],
                       default_branch |-> BranchMain],
       head_commit |-> CommitTable[c]]

\* A request body is one byte: byte i stands for the JSON text of PayloadAt(i),
\* any other byte for a body that is not JSON.
IsJson(raw) == Len(raw) = 1 /\ raw[1] \in 1..NPayloads

\* The payloads of the table, by their byte.
Payloads == [i \in 1..NPayloads |-> PayloadAt(i)]

\* JSON.parse(new TextDecoder().decode(raw)) for a body that is JSON
JSONParse(raw) == Payloads[raw[1]]

\* ------------------------------------------------------------------------
\* Configuration (main.ts 38-47)
\* ------------------------------------------------------------------------
Secret == <<"s", "3", "c", "r", "e", "t">>
WrongSecret == <<"w", "r", "o", "n", "g">>

Configs ==
  [GITHUB_WEBHOOK_SECRET : {<<>>, Secret},
   OPENAI_API_KEY : {<<>>, <<"k">>},
   AI_SUMMARY : {<<"o", "n">>},
   BLUESKY_IDENTIFIER : {<<>>, <<"m", "e">>},
   BLUESKY_APP_PASSWORD : {<<"p", "w">>},
   BRANCH_ONLY : {<<>>, BranchRel},
   REPO_ALLOWLIST : {<<>>, <<"o", "/", "*">>}]

\* The configuration of the concurrency specification: the secret and the
\* credentials are set, the summarizer is off, and neither the allowlist nor
\* BRANCH_ONLY restricts the pushes.
ConcConfigs ==
  {c \in Configs : /\ c.GITHUB_WEBHOOK_SECRET = Secret
                   /\ c.OPENAI_API_KEY = <<>>
                   /\ c.BLUESKY_IDENTIFIER # <<>>
                   /\ c.BRANCH_ONLY = <<>>
                   /\ c.REPO_ALLOWLIST = <<>>}

\* ------------------------------------------------------------------------
\* Responses
\* ------------------------------------------------------------------------
NoResult ==
  [status |-> "", reason |-> "", postUri |-> 0, ref |-> Undefined, expected |-> Undefined]

Skip_Skipped(reason) == [NoResult EXCEPT !.status = "skipped", !.reason = reason]

Skip(reason) == [NoResult EXCEPT !.status = "skip", !.reason = reason]

TextResp(code, text) == [code |-> code, text |-> text, result |-> NoResult, error |-> ""]

\* new Response(JSON.stringify(result)): status 200
JsonResp(result) == [code |-> 200, text |-> "", result |-> result, error |-> ""]

\* An exception that leaves route: Deno.serve answers 500.
Thrown(err) ==
  [code |-> 500, text |-> "Internal Server Error", result |-> NoResult, error |-> err]

NoResp == TextResp(0, "")

\* ------------------------------------------------------------------------
\* handlePush up to the dedupe read (main.ts 179-208)
\* ------------------------------------------------------------------------
\* BRANCH_ONLY || default_branch, as a ref (main.ts 192-193)
ExpectedRef_DefaultOnly(cfg, push) == RefsHeads \o push.repository.default_branch

ExpectedRef(cfg, push) ==
  LET targetBranch == IF cfg.BRANCH_ONLY # <<>> THEN cfg.BRANCH_ONLY
                      ELSE push.repository.default_branch
  IN  RefsHeads \o targetBranch

\* The checks before the first await.  pass is TRUE when every check passed;
\* evaluated counts the conditions that were evaluated.
PreChecks_BranchFirst(cfg, push) ==
  LET repo == push.repository.full_name
      hc == push.head_commit
      expected == ExpectedRef(cfg, push)
  IN  IF push.ref # expected
      THEN [pass |-> FALSE, evaluated |-> 1,
            result |-> [Skip("wrong_branch") EXCEPT !.ref = push.ref, !.expected = expected]]
      ELSE IF ~repoAllowed(AllowPatterns(cfg.REPO_ALLOWLIST), repo)
      THEN [pass |-> FALSE, evaluated |-> 2, result |-> Skip("repo_not_allowed")]
      ELSE IF hc = NullRec
      THEN [pass |-> FALSE, evaluated |-> 3, result |-> Skip("no_head_commit")]
      ELSE IF ~hasSemver(Coalesce(hc.message, <<>>))
      THEN [pass |-> FALSE, evaluated |-> 4, result |-> Skip("no_semver")]
      ELSE [pass |-> TRUE, evaluated |-> 4, result |-> NoResult]

PreChecks_EitherSignal(cfg, push) ==
  LET repo == push.repository.full_name
      hc == push.head_commit
      expected == ExpectedRef(cfg, push)
  IN  IF ~repoAllowed(AllowPatterns(cfg.REPO_ALLOWLIST), repo)
      THEN [pass |-> FALSE, evaluated |-> 1, result |-> Skip("repo_not_allowed")]
      ELSE IF hc = NullRec
      THEN [pass |-> FALSE, evaluated |-> 2, result |-> Skip("no_head_commit")]
      ELSE IF push.ref # expected
      THEN [pass |-> FALSE, evaluated |-> 3,
            result |-> [Skip("wrong_branch") EXCEPT !.ref = push.ref, !.expected = expected]]
      ELSE IF ~hasSemver(Coalesce(hc.message, <<>>))
              /\ ~hasPublishKeyword(Coalesce(hc.message, <<>>))
      THEN [pass |-> FALSE, evaluated |-> 4, result |-> Skip("no_semver")]
      ELSE [pass |-> TRUE, evaluated |-> 4, result |-> NoResult]

PreChecks(cfg, push) ==
  LET repo == push.repository.full_name
      hc == push.head_commit
      expected == ExpectedRef(cfg, push)
  IN  IF ~repoAllowed(AllowPatterns(cfg.REPO_ALLOWLIST), repo)
      THEN [pass |-> FALSE, evaluated |-> 1, result |-> Skip("repo_not_allowed")]
      ELSE IF hc = NullRec
      THEN [pass |-> FALSE, evaluated |-> 2, result |-> Skip("no_head_commit")]
      ELSE IF push.ref # expected
      THEN [pass |-> FALSE, evaluated |-> 3,
            result |-> [Skip("wrong_branch") EXCEPT !.ref = push.ref, !.expected = expected]]
      ELSE IF ~hasSemver(Coalesce(hc.message, <<>>))
      THEN [pass |-> FALSE, evaluated |-> 4, result |-> Skip("no_semver")]
      ELSE [pass |-> TRUE, evaluated |-> 4, result |-> NoResult]

\* const key = ["posted", repo, sha]
KeyOf(push) == <<"posted", push.repository.full_name, push.head_commit.id>>

\* fullMsg.split("\n")[0].trim()
FirstLine(msg) == Trim(Split(msg, "\n")[1])

\* hc.author?.name ?? "unknown"
AuthorOf(hc) ==
  IF hc.author = NullRec \/ hc.author.name = Null \/ hc.author.name = Undefined
  THEN <<"u", "n", "k", "n", "o", "w", "n">>
  ELSE hc.author.name

\* The status text of main.ts 220-224.
ComposeStatus(push, condensed) ==
  LET sha == push.head_commit.id
      repo == push.repository.full_name
      tag == <<"#", "g", "h", "_">> \o shortSha(sha)
      commitUrl == push.repository.html_url \o <<"/", "c", "o", "m", "m", "i", "t", "/">> \o sha
  IN  fitPost(condensed \o <<" ", "emdash", " ">> \o repo \o <<" ", "b", "y", " ">>
                \o AuthorOf(push.head_commit) \o <<" ", "(">> \o shortSha(sha)
                \o <<")", " ">> \o commitUrl \o <<" ">> \o tag,
              POST_CHAR_LIMIT)

\* aiCondense returns its argument without a network call (main.ts 145)
aiDisabled(cfg) ==
  cfg.OPENAI_API_KEY = <<>> \/ ToLower(cfg.AI_SUMMARY) = <<"o", "f", "f">>

\* ------------------------------------------------------------------------
\* Deliveries
\* ------------------------------------------------------------------------
EventPush == <<"p", "u", "s", "h">>
EventPing == <<"p", "i", "n", "g">>

\* The header a sender computes for body raw with the secret key: sha256= and
\* the HMAC-SHA-256 of the body.
SignedBy(key, raw) == Sha256Prefix \o HexOfDigest(TextEncode(key), raw)

\* s with its last character replaced by another hexadecimal digit
FlipLast(s) ==
  [s EXCEPT ![Len(s)] = IF @ = "0" THEN "1" ELSE "0"]

SigsFor(cfg, raw) ==
  {Null,
   SignedBy(cfg.GITHUB_WEBHOOK_SECRET, raw),
   SignedBy(WrongSecret, raw),
   SignedBy(<<>>, raw),
   HexOfDigest(TextEncode(cfg.GITHUB_WEBHOOK_SECRET), raw),
   FlipLast(SignedBy(cfg.GITHUB_WEBHOOK_SECRET, raw))}

\* Every request POST /webhook can carry: any body of the table or a body
\* that is not JSON, any of the signature headers, any event header.
AllDeliveries(cfg) ==
  UNION {{[raw |-> <<b>>, sig |-> sg, event |-> e] :
             sg \in SigsFor(cfg, <<b>>), e \in {EventPush, EventPing, Null}} :
         b \in 0..NPayloads}

\* A correctly signed push of the first payload, and the same request unsigned.
ConcBodies == {1}

ConcDeliveries(cfg) ==
  {[raw |-> <<b>>, sig |-> SignedBy(cfg.GITHUB_WEBHOOK_SECRET, <<b>>), event |-> EventPush] :
      b \in ConcBodies}
  \cup {[raw |-> <<1>>, sig |-> Null, event |-> EventPush]}

\* ------------------------------------------------------------------------
\* State
\* ------------------------------------------------------------------------
\* Number of webhook requests of one behaviour; they may all be in flight at once.
NReq == 2
Reqs == 1..NReq

VARIABLES
  env,        \* the configuration read at start-up (main.ts 38-47)
  kv,         \* the Deno KV store: key -> PostRecord
  bskyAgent,  \* module variable bskyAgent: 0 (null) or the agent of login p
  agentInit,  \* module variable agentInit: 0 (null) or login promise p
  logins,     \* the login promises created so far: "pending", "ok" or "fail"
  feed,       \* the posts Bluesky accepted, in order
  clock,      \* the system clock read by new Date()
  req,        \* the requests: position in route/handlePush and local values
  call,       \* a direct call of one function: its arguments and its result
  cli,        \* one run of the command-line poster: its position and local values
  seen        \* the lines of the file .git/aug-bluesky-posted

vars == <<env, kv, bskyAgent, agentInit, logins, feed, clock, req, call, cli, seen>>

NoEffects ==
  [verify |-> 0, event |-> 0, parse |-> 0, kvget |-> 0, ai |-> 0,
   publish |-> 0, attempts |-> 0, login |-> 0, post |-> 0, kvset |-> 0]

NoDelivery == [raw |-> <<>>, sig |-> Null, event |-> Null]
NoRec == [postedAt |-> 0, postUri |-> 0]

\* The PostRecord handlePush writes (main.ts 229-233): the time and uri the post
\* call returned with, and the status text that was posted.
PostRecord(rq) ==
  [postedAt |-> rq.rec.postedAt, postUri |-> rq.rec.postUri,
   statusPreview |-> IF rq.rec = NoRec THEN <<>>
                     ELSE ComposeStatus(JSONParse(rq.d.raw), rq.condensed)]

NoCall == [fn |-> "none"]

\* No command-line run takes part in the behaviour.
NoCli == [pc |-> "none"]

IdleReq ==
  [pc |-> "idle", d |-> NoDelivery, condensed |-> <<>>, attempt |-> 0,
   waitOn |-> 0, agent |-> 0, rec |-> NoRec, resp |-> NoResp, did |-> NoEffects,
   prior |-> {}, evaluated |-> 0]

\* The request is answered; the locals of route and handlePush are gone.
Finish(rq, resp) ==
  [rq EXCEPT !.pc = "done", !.resp = resp, !.condensed = <<>>, !.attempt = 0,
             !.waitOn = 0, !.agent = 0, !.rec = NoRec]

\* kv.get(key).value
KvValue(store, key) == IF key \in DOMAIN store THEN store[key] ELSE NullRec

\* kv.set(key, rec)
KvPut(store, key, rec) ==
  [k \in DOMAIN store \cup {key} |-> IF k = key THEN rec ELSE store[k]]

InitWith(C) ==
  /\ env \in C
  /\ kv = <<>>
  /\ bskyAgent = 0
  /\ agentInit = 0
  /\ logins = <<>>
  /\ feed = <<>>
  /\ clock = 1
  /\ req = [r \in Reqs |-> IdleReq]
  /\ cli = NoCli
  /\ seen = <<>>
  /\ call = NoCall

\* ------------------------------------------------------------------------
\* route (main.ts 242-269) and handlePush (main.ts 179-239)
\* ------------------------------------------------------------------------
\* A POST /webhook request arrives and its body is read (main.ts 251-252).
\* Requests are numbered in the order of their arrival.
ReceiveFrom(r, D) ==
  /\ req[r].pc = "idle"
  /\ \A q \in Reqs : q < r => req[q].pc # "idle"
  /\ \E d \in D :
       req' = [req EXCEPT ![r] =
                 [@ EXCEPT !.pc = "recv", !.d = d,
                           !.prior = {q \in Reqs : /\ req[q].pc = "done"
                                                   /\ req[q].d = d
                                                   /\ req[q].resp.result.status = "posted"}]]
  /\ UNCHANGED <<cli, seen, call, env, kv, bskyAgent, agentInit, logins, feed, clock>>

Receive(r) == ReceiveFrom(r, ConcDeliveries(env))

ReceiveAny(r) == ReceiveFrom(r, AllDeliveries(env))

\* route from the secret check to the first access of shared state.
RouteSync_No401(cfg, rq) ==
  LET d == rq.d
  IN  IF cfg.GITHUB_WEBHOOK_SECRET = <<>>
      THEN Finish(rq, TextResp(500, "Missing secret"))
      ELSE IF d.event # EventPush
      THEN Finish([rq EXCEPT !.did.verify = 1, !.did.event = 1],
                  TextResp(202, "Ignored event"))
      ELSE IF ~IsJson(d.raw)
      THEN Finish([rq EXCEPT !.did.verify = 1, !.did.event = 1, !.did.parse = 1],
                  Thrown("SyntaxError"))
      ELSE LET push == JSONParse(d.raw)
               pre == PreChecks(cfg, push)
               rq1 == [rq EXCEPT !.did.verify = 1, !.did.event = 1, !.did.parse = 1,
                                 !.evaluated = pre.evaluated]
           IN  IF ~pre.pass THEN Finish(rq1, JsonResp(pre.result))
               ELSE [rq1 EXCEPT !.pc = "kvget"]

\* The variant of route without the test of GITHUB_WEBHOOK_SECRET.
RouteSync_NoSecretCheck(cfg, rq) ==
  LET d == rq.d
  IN  IF /\ d.sig # Null /\ d.sig # <<>> /\ StartsWith(d.sig, Sha256Prefix)
         /\ ImportKeyRejects(TextEncode(cfg.GITHUB_WEBHOOK_SECRET))
      THEN Finish([rq EXCEPT !.did.verify = 1], Thrown("DataError"))
      ELSE IF ~verifyGitHubSignature(cfg.GITHUB_WEBHOOK_SECRET, d.sig, d.raw)
      THEN Finish([rq EXCEPT !.did.verify = 1], TextResp(401, "Bad signature"))
      ELSE IF d.event # EventPush
      THEN Finish([rq EXCEPT !.did.verify = 1, !.did.event = 1],
                  TextResp(202, "Ignored event"))
      ELSE IF ~IsJson(d.raw)
      THEN Finish([rq EXCEPT !.did.verify = 1, !.did.event = 1, !.did.parse = 1],
                  Thrown("SyntaxError"))
      ELSE LET push == JSONParse(d.raw)
               pre == PreChecks(cfg, push)
               rq1 == [rq EXCEPT !.did.verify = 1, !.did.event = 1, !.did.parse = 1,
                                 !.evaluated = pre.evaluated]
           IN  IF ~pre.pass THEN Finish(rq1, JsonResp(pre.result))
               ELSE [rq1 EXCEPT !.pc = "kvget"]

RouteSync(cfg, rq) ==
  LET d == rq.d
  IN  IF cfg.GITHUB_WEBHOOK_SECRET = <<>>
      THEN Finish(rq, TextResp(500, "Missing secret"))
      ELSE IF ~verifyGitHubSignature(cfg.GITHUB_WEBHOOK_SECRET, d.sig, d.raw)
      THEN Finish([rq EXCEPT !.did.verify = 1], TextResp(401, "Bad signature"))
      ELSE IF d.event # EventPush
      THEN Finish([rq EXCEPT !.did.verify = 1, !.did.event = 1],
                  TextResp(202, "Ignored event"))
      ELSE IF ~IsJson(d.raw)
      THEN Finish([rq EXCEPT !.did.verify = 1, !.did.event = 1, !.did.parse = 1],
                  Thrown("SyntaxError"))
      ELSE LET push == JSONParse(d.raw)
               pre == PreChecks(cfg, push)
               rq1 == [rq EXCEPT !.did.verify = 1, !.did.event = 1, !.did.parse = 1,
                                 !.evaluated = pre.evaluated]
           IN  IF ~pre.pass THEN Finish(rq1, JsonResp(pre.result))
               ELSE [rq1 EXCEPT !.pc = "kvget"]

\* verifyGitHubSignature reaches its await of hmacSha256Hex (main.ts 132-135):
\* the secret is set and the header starts with sha256=.
AwaitsDigest(cfg, d) ==
  /\ cfg.GITHUB_WEBHOOK_SECRET # <<>>
  /\ d.sig # Null /\ d.sig # <<>>
  /\ StartsWith(d.sig, Sha256Prefix)

\* route after the body was read (main.ts 253-255): it answers at once when
\* the secret is empty or the header is unusable, and otherwise waits for
\* crypto.subtle while other requests run.
Route(r) ==
  /\ req[r].pc = "recv"
  /\ req' = [req EXCEPT ![r] =
               IF AwaitsDigest(env, @.d) THEN [@ EXCEPT !.pc = "verify", !.did.verify = 1]
               ELSE RouteSync(env, @)]
  /\ UNCHANGED <<cli, seen, call, env, kv, bskyAgent, agentInit, logins, feed, clock>>

\* crypto.subtle.sign resolves (main.ts 83): the comparison, the event header,
\* the parse and the gates of handlePush follow (main.ts 136-140, 256-261).
RouteResume(r) ==
  /\ req[r].pc = "verify"
  /\ req' = [req EXCEPT ![r] = RouteSync(env, @)]
  /\ UNCHANGED <<cli, seen, call, env, kv, bskyAgent, agentInit, logins, feed, clock>>

\* already.value is truthy (main.ts 212)
AlreadyPosted_Never(store, key) == FALSE

AlreadyPosted(store, key) == KvValue(store, key) # NullRec

\* The variant of handlePush that calls the summarizer before it looks at
\* the record.
KvGet_SummarizesFirst(r) ==
  /\ req[r].pc = "kvget"
  /\ LET rq == [req[r] EXCEPT !.did.kvget = @ + 1,
                              !.did.ai = IF aiDisabled(env) THEN 0 ELSE 1]
     IN  req' = [req EXCEPT ![r] =
                   IF AlreadyPosted(kv, KeyOf(JSONParse(rq.d.raw)))
                   THEN Finish(rq, JsonResp([Skip("already_posted") EXCEPT
                                               !.postUri = KvValue(kv, KeyOf(JSONParse(rq.d.raw))).postUri]))
                   ELSE [rq EXCEPT !.pc = "condense"]]
  /\ UNCHANGED <<cli, seen, call, env, kv, bskyAgent, agentInit, logins, feed, clock>>

\* kv.get resolves (main.ts 211-215); when the key is new, aiCondense is called
\* and, unless it returns at once, its fetch is sent (main.ts 218-219, 145-146).
KvGet(r) ==
  /\ req[r].pc = "kvget"
  /\ LET rq == [req[r] EXCEPT !.did.kvget = @ + 1]
     IN  req' = [req EXCEPT ![r] =
                   IF AlreadyPosted(kv, KeyOf(JSONParse(rq.d.raw)))
                   THEN Finish(rq, JsonResp([Skip("already_posted") EXCEPT
                                               !.postUri = KvValue(kv, KeyOf(JSONParse(rq.d.raw))).postUri]))
                   ELSE [rq EXCEPT !.pc = "condense",
                                   !.did.ai = IF aiDisabled(env) THEN 0 ELSE 1]]
  /\ UNCHANGED <<cli, seen, call, env, kv, bskyAgent, agentInit, logins, feed, clock>>

\* One iteration of the loop of blueskyPostStatus (main.ts 116-126) from its
\* call of getBskyAgent (main.ts 93-104) to the next await; ai, ba, lg are the
\* module variables agentInit, bskyAgent and the login promises.
RECURSIVE BeginAttempt(_, _, _, _, _, _)
BeginAttempt(cfg, rq0, att, ai, ba, lg) ==
  LET rq == [rq0 EXCEPT !.did.attempts = att + 1]
  IN  IF ba # 0
      THEN [rq |-> [rq EXCEPT !.pc = "post", !.attempt = att, !.agent = ba, !.did.post = @ + 1],
            agentInit |-> ai, bskyAgent |-> ba, logins |-> lg]
      ELSE IF cfg.BLUESKY_IDENTIFIER = <<>> \/ cfg.BLUESKY_APP_PASSWORD = <<>>
      THEN IF att = 1
           THEN [rq |-> Finish([rq EXCEPT !.attempt = att], Thrown("Missing Bluesky credentials")),
                 agentInit |-> 0, bskyAgent |-> 0, logins |-> lg]
           ELSE BeginAttempt(cfg, rq, 1, 0, 0, lg)
      ELSE IF ai = 0
      THEN [rq |-> [rq EXCEPT !.pc = "login", !.attempt = att, !.waitOn = Len(lg) + 1,
                              !.did.login = @ + 1],
            agentInit |-> Len(lg) + 1, bskyAgent |-> ba, logins |-> Append(lg, "pending")]
      ELSE [rq |-> [rq EXCEPT !.pc = "login", !.attempt = att, !.waitOn = ai],
            agentInit |-> ai, bskyAgent |-> ba, logins |-> lg]

\* What the summarizer can answer: the content of its first choice.
AiReplies == {<<"s", "h", "i", "p", " ", "v", "1", ".", "2", ".", "3", " ">>}

\* aiCondense returns or throws (main.ts 144-168); handlePush composes the
\* status and calls blueskyPostStatus (main.ts 220-227).
Condense(r) ==
  /\ req[r].pc = "condense"
  /\ LET push == JSONParse(req[r].d.raw)
         text == FirstLine(Coalesce(push.head_commit.message, <<>>))
         outcomes ==
           IF aiDisabled(env) THEN {[throws |-> FALSE, value |-> text]}
           ELSE {[throws |-> TRUE, value |-> text],          \* fetch or res.json() throws
                 [throws |-> FALSE, value |-> text]}         \* !res.ok
                \cup {[throws |-> FALSE, value |-> Trim(c)] : c \in AiReplies}
                \cup {[throws |-> FALSE, value |-> Trim(text)]}  \* no content
     IN  \E o \in outcomes :
           IF o.throws
           THEN /\ req' = [req EXCEPT ![r] = Finish(@, Thrown("fetch failed"))]
                /\ UNCHANGED <<agentInit, bskyAgent, logins>>
           ELSE LET rq == [req[r] EXCEPT !.condensed = o.value, !.did.publish = @ + 1]
                    nx == BeginAttempt(env, rq, 0, agentInit, bskyAgent, logins)
                IN  /\ req' = [req EXCEPT ![r] = nx.rq]
                    /\ agentInit' = nx.agentInit
                    /\ bskyAgent' = nx.bskyAgent
                    /\ logins' = nx.logins
  /\ UNCHANGED <<cli, seen, call, env, kv, feed, clock>>

\* agent.login of a pending login promise succeeds or fails (main.ts 101).
LoginSettle ==
  /\ \E p \in 1..Len(logins) :
       /\ logins[p] = "pending"
       /\ \E outcome \in {"ok", "fail"} : logins' = [logins EXCEPT ![p] = outcome]
  /\ UNCHANGED <<cli, seen, call, env, kv, bskyAgent, agentInit, feed, clock, req>>

\* await agentInit returns or throws in getBskyAgent (main.ts 105-112); on
\* success blueskyPostStatus calls agent.post (main.ts 119).
LoginResume(r) ==
  /\ req[r].pc = "login"
  /\ logins[req[r].waitOn] # "pending"
  /\ IF logins[req[r].waitOn] = "ok"
     THEN /\ bskyAgent' = req[r].waitOn
          /\ agentInit' = agentInit
          /\ req' = [req EXCEPT ![r] =
                       [@ EXCEPT !.pc = "post", !.agent = req[r].waitOn, !.did.post = @ + 1]]
     ELSE /\ bskyAgent' = 0
          /\ agentInit' = 0
          /\ req' = [req EXCEPT ![r] = [@ EXCEPT !.pc = "catch"]]
  /\ UNCHANGED <<cli, seen, call, env, kv, logins, feed, clock>>

\* The catch of blueskyPostStatus after getBskyAgent threw (main.ts 121-125).
Catch(r) ==
  /\ req[r].pc = "catch"
  /\ IF req[r].attempt = 1
     THEN /\ req' = [req EXCEPT ![r] = Finish(@, Thrown("login failed"))]
          /\ agentInit' = 0
          /\ bskyAgent' = 0
          /\ logins' = logins
     ELSE LET nx == BeginAttempt(env, req[r], 1, 0, 0, logins)
          IN  /\ req' = [req EXCEPT ![r] = nx.rq]
              /\ agentInit' = nx.agentInit
              /\ bskyAgent' = nx.bskyAgent
              /\ logins' = nx.logins
  /\ UNCHANGED <<cli, seen, call, env, kv, feed, clock>>

\* agent.post returns (main.ts 119-120, then 229-235 up to the call of kv.set).
PostOk(r) ==
  /\ req[r].pc = "post"
  /\ LET push == JSONParse(req[r].d.raw)
         status == ComposeStatus(push, req[r].condensed)
         uri == Len(feed) + 1
     IN  /\ feed' = Append(feed, [key |-> <<>>, text |-> status, uri |-> uri, by |-> r])
         /\ req' = [req EXCEPT ![r] =
                      [@ EXCEPT !.pc = "kvset",
                                !.rec = [postedAt |-> clock, postUri |-> uri]]]
  /\ clock' = clock + 1
  /\ UNCHANGED <<cli, seen, call, env, kv, bskyAgent, agentInit, logins>>

PostFail_Records(r) ==
  /\ req[r].pc = "post"
  /\ req[r].attempt = 1
  /\ req' = [req EXCEPT ![r] = Finish([@ EXCEPT !.did.kvset = @ + 1], Thrown("post failed"))]
  /\ kv' = KvPut(kv, KeyOf(JSONParse(req[r].d.raw)), PostRecord(req[r]))
  /\ agentInit' = 0
  /\ bskyAgent' = 0
  /\ UNCHANGED <<cli, seen, call, env, logins, feed, clock>>

PostFail_RetriesForever(r) ==
  /\ req[r].pc = "post"
  /\ LET nx == BeginAttempt(env, req[r], 1, 0, 0, logins)
     IN  /\ req' = [req EXCEPT ![r] = nx.rq]
         /\ agentInit' = nx.agentInit
         /\ bskyAgent' = nx.bskyAgent
         /\ logins' = nx.logins
  /\ UNCHANGED <<cli, seen, call, env, kv, feed, clock>>

\* agent.post throws (main.ts 121-125).
PostFail(r) ==
  /\ req[r].pc = "post"
  /\ IF req[r].attempt = 1
     THEN /\ req' = [req EXCEPT ![r] = Finish(@, Thrown("post failed"))]
          /\ agentInit' = 0
          /\ bskyAgent' = 0
          /\ logins' = logins
     ELSE LET nx == BeginAttempt(env, req[r], 1, 0, 0, logins)
          IN  /\ req' = [req EXCEPT ![r] = nx.rq]
              /\ agentInit' = nx.agentInit
              /\ bskyAgent' = nx.bskyAgent
              /\ logins' = nx.logins
  /\ UNCHANGED <<cli, seen, call, env, kv, feed, clock>>

KvSet_BeforePublish(r) ==
  /\ req[r].pc = "condense"
  /\ kv' = KvPut(kv, KeyOf(JSONParse(req[r].d.raw)), PostRecord(req[r]))
  /\ req' = [req EXCEPT ![r] = [@ EXCEPT !.did.kvset = 1]]
  /\ UNCHANGED <<cli, seen, call, env, bskyAgent, agentInit, logins, feed, clock>>

\* kv.set resolves and handlePush returns posted (main.ts 235-238).
KvSet(r) ==
  /\ req[r].pc = "kvset"
  /\ kv' = KvPut(kv, KeyOf(JSONParse(req[r].d.raw)), PostRecord(req[r]))
  /\ req' = [req EXCEPT ![r] =
               Finish([@ EXCEPT !.did.kvset = @ + 1],
                      JsonResp([NoResult EXCEPT !.status = "posted",
                                                !.postUri = req[r].rec.postUri]))]
  /\ UNCHANGED <<cli, seen, call, env, bskyAgent, agentInit, logins, feed, clock>>

Next ==
  \/ \E r \in Reqs : Receive(r)
  \/ \E r \in Reqs : Route(r)
  \/ \E r \in Reqs : RouteResume(r)
  \/ \E r \in Reqs : KvGet(r)
  \/ \E r \in Reqs : Condense(r)
  \/ LoginSettle
  \/ \E r \in Reqs : LoginResume(r)
  \/ \E r \in Reqs : Catch(r)
  \/ \E r \in Reqs : PostOk(r)
  \/ \E r \in Reqs : PostFail(r)
  \/ \E r \in Reqs : KvSet(r)

Init == InitWith(ConcConfigs)

\* Concurrent webhook requests.
Spec == Init /\ [][Next]_vars

\* GitHub delivers the request of slot 1 a second time, after it was answered.
Redeliver ==
  /\ req[1].pc = "done"
  /\ ReceiveFrom(2, {req[1].d})

NextRoute ==
  \/ ReceiveAny(1)
  \/ Redeliver
  \/ \E r \in {1, 2} : Route(r)
  \/ \E r \in {1, 2} : RouteResume(r)
  \/ \E r \in {1, 2} : KvGet(r)
  \/ \E r \in {1, 2} : Condense(r)
  \/ LoginSettle
  \/ \E r \in {1, 2} : LoginResume(r)
  \/ \E r \in {1, 2} : Catch(r)
  \/ \E r \in {1, 2} : PostOk(r)
  \/ \E r \in {1, 2} : PostFail(r)
  \/ \E r \in {1, 2} : KvSet(r)

InitRoute == InitWith(Configs)

\* One webhook request with any body, signature header and event header, and
\* its redelivery, under every configuration.
SpecRoute == InitRoute /\ [][NextRoute]_vars

\* ------------------------------------------------------------------------
\* The Twitter webhook server (part_003)
\* ------------------------------------------------------------------------
\* Default of the parameter max of fitTweet.
FitTweetMax == 280

fitTweet(s, max) ==
  IF Len(s) <= max THEN s ELSE Slice(s, 0, max - 1) \o <<"ellipsis">>

\* fullMsg.split("\\n")[0].trim() (part_003 222).  The string literal of the
\* source is the two characters backslash and n, not a newline: the text
\* before the first backslash followed by n, or the whole message when there
\* is none, trimmed.
TwFirstLine(fullMsg) ==
  LET hits == {i \in 0..(Len(fullMsg) - 2) : Slice(fullMsg, i, i + 2) = <<"\\", "n">>}
  IN  Trim(IF hits = {} THEN fullMsg
           ELSE Slice(fullMsg, 0, CHOOSE i \in hits : \A j \in hits : i <= j))

\* The process of the Twitter server before Deno has read its module.
TwProcess == [fn |-> "twitter", pc |-> "import", code |-> -1, why |-> ""]

\* deno run of part_003: lines 224 and 226 hold the texts of template
\* literals without their back-ticks, so the module does not parse.  Deno
\* reports the SyntaxError and exits with code 1 before a statement of the
\* module runs: the environment is not read, Deno.openKv and Deno.serve
\* (part_003 265-272) are never reached.
TwImport ==
  /\ call.fn = "twitter"
  /\ call.pc = "import"
  /\ call' = [call EXCEPT !.pc = "exit", !.code = 1, !.why = "SyntaxError"]
  /\ UNCHANGED <<cli, seen, env, kv, bskyAgent, agentInit, logins, feed, clock, req>>

\* A sender posts a delivery to the address of the server.  No handler was
\* ever registered: the connection is refused, the request is not read and
\* gets no response.
TwDeliver(r) ==
  /\ call.fn = "twitter"
  /\ req[r].pc = "idle"
  /\ \E d \in AllDeliveries(env) :
       req' = [req EXCEPT ![r] = [@ EXCEPT !.pc = "refused", !.d = d]]
  /\ UNCHANGED <<cli, seen, call, env, kv, bskyAgent, agentInit, logins, feed, clock>>

NextTwitter ==
  \/ TwImport
  \/ TwDeliver(1)

\* The environments the Twitter server is started in: the Bluesky variables
\* are not set.
TwConfigs == {c \in Configs : c.BLUESKY_IDENTIFIER = <<>>}

InitTwitter ==
  /\ env \in TwConfigs
  /\ kv = <<>>
  /\ bskyAgent = 0
  /\ agentInit = 0
  /\ logins = <<>>
  /\ feed = <<>>
  /\ clock = 1
  /\ req = [r \in Reqs |-> IdleReq]
  /\ cli = NoCli
  /\ seen = <<>>
  /\ call = TwProcess

\* The start of the Twitter server and a webhook request sent to it.
SpecTwitter == InitTwitter /\ [][NextTwitter]_vars

\* ------------------------------------------------------------------------
\* The command-line posters: part_001 (mod.ts), .githooks/bluesky-bot/mod.ts
\* and scripts/bluesky-post.ts
\* ------------------------------------------------------------------------
\* The three programs.
ProgMod == "mod"          \* part_001
ProgHook == "hook"        \* .githooks/bluesky-bot/mod.ts
ProgScript == "script"    \* scripts/bluesky-post.ts
Progs == {ProgMod, ProgHook, ProgScript}

On == <<"o", "n">>
Off == <<"o", "f", "f">>
Me == <<"m", "e">>
Pw == <<"p", "w">>

\* The credential variables of the process environment.
NoCreds ==
  [BSKY_HANDLE |-> Undefined, BSKY_IDENTIFIER |-> Undefined, BLUESKY_HANDLE |-> Undefined,
   BLUESKY_IDENTIFIER |-> Undefined, BSKY_APP_PASSWORD |-> Undefined,
   BLUESKY_APP_PASSWORD |-> Undefined]

\* The credentials under the names firstEnv looks up first.
MainCreds == [NoCreds EXCEPT !.BSKY_HANDLE = Me, !.BSKY_APP_PASSWORD = Pw]

CredVariants ==
  {NoCreds,
   MainCreds,
   [NoCreds EXCEPT !.BLUESKY_IDENTIFIER = Me, !.BLUESKY_APP_PASSWORD = Pw],
   [NoCreds EXCEPT !.BSKY_HANDLE = <<>>, !.BSKY_IDENTIFIER = Me, !.BSKY_APP_PASSWORD = Pw],
   [NoCreds EXCEPT !.BSKY_HANDLE = Me]}

\* Deno.env.toObject() of a run: every setting of the summarizer with the
\* credentials under their first names, and no summarizer key with the others.
CliEnvs ==
  {[BSKY_HANDLE |-> t[1].BSKY_HANDLE, BSKY_IDENTIFIER |-> t[1].BSKY_IDENTIFIER,
    BLUESKY_HANDLE |-> t[1].BLUESKY_HANDLE, BLUESKY_IDENTIFIER |-> t[1].BLUESKY_IDENTIFIER,
    BSKY_APP_PASSWORD |-> t[1].BSKY_APP_PASSWORD,
    BLUESKY_APP_PASSWORD |-> t[1].BLUESKY_APP_PASSWORD,
    BLUESKY_SERVICE |-> Undefined,
    BLUESKY_DRYRUN |-> t[2], BLUESKY_FORCE |-> t[3],
    OPENAI_API_KEY |-> t[4][1], AI_SUMMARY |-> t[4][2]] :
     t \in {u \in CredVariants \X {Undefined, On} \X {Undefined, <<"O", "n">>}
                    \X {<<Undefined, Undefined>>, <<<<"k">>, Undefined>>,
                        <<<<"k">>, <<"O", "F", "F">>>>} :
              u[1] = MainCreds \/ u[4][1] = Undefined}}

DEFAULT_BLUESKY_SERVICE == <<"h", "t", "t", "p", "s", ":", "/", "/", "b", "s", "k", "y", ".", "s", "o", "c", "i", "a", "l">>

loadConfig_HandleOnly(e) ==
  LET service == firstEnv(e, <<"BLUESKY_SERVICE">>, DEFAULT_BLUESKY_SERVICE)
      handle == firstEnv(e, <<"BSKY_HANDLE", "BSKY_IDENTIFIER", "BLUESKY_HANDLE",
                              "BLUESKY_IDENTIFIER">>, <<>>)
      password == firstEnv(e, <<"BSKY_APP_PASSWORD", "BLUESKY_APP_PASSWORD">>, <<>>)
      dryRun == ToLower(firstEnv(e, <<"BLUESKY_DRYRUN">>, <<>>)) = On
  IN  [ok |-> handle # <<>>,
       service |-> service, handle |-> handle, password |-> password, dryRun |-> dryRun]

\* loadConfig (part_001 413-436, .githooks/bluesky-bot/mod.ts 225-246); ok is
\* FALSE where part_001 returns an error and the hook's mod.ts throws.
loadConfig(e) ==
  LET service == firstEnv(e, <<"BLUESKY_SERVICE">>, DEFAULT_BLUESKY_SERVICE)
      handle == firstEnv(e, <<"BSKY_HANDLE", "BSKY_IDENTIFIER", "BLUESKY_HANDLE",
                              "BLUESKY_IDENTIFIER">>, <<>>)
      password == firstEnv(e, <<"BSKY_APP_PASSWORD", "BLUESKY_APP_PASSWORD">>, <<>>)
      dryRun == ToLower(firstEnv(e, <<"BLUESKY_DRYRUN">>, <<>>)) = On
  IN  [ok |-> handle # <<>> /\ password # <<>>,
       service |-> service, handle |-> handle, password |-> password, dryRun |-> dryRun]

\* a || b for strings that may be unset
OrElse(a, b) == IF a # Undefined /\ a # <<>> THEN a ELSE b

\* The configuration scripts/bluesky-post.ts reads (lines 115-122).
scriptConfig(e) ==
  LET handle == OrElse(e.BSKY_HANDLE, OrElse(e.BSKY_IDENTIFIER, <<>>))
      password == OrElse(e.BSKY_APP_PASSWORD, <<>>)
      dry == OrElse(e.BLUESKY_DRYRUN, <<>>)
  IN  [ok |-> handle # <<>> /\ password # <<>>,
       service |-> IF e.BLUESKY_SERVICE = Undefined THEN DEFAULT_BLUESKY_SERVICE
                   ELSE e.BLUESKY_SERVICE,
       handle |-> handle, password |-> password, dryRun |-> ToLower(dry) = On]

ConfigOf(prog, e) == IF prog = ProgScript THEN scriptConfig(e) ELSE loadConfig(e)

\* firstEnv(env, ["BLUESKY_FORCE"]).toLowerCase() === "on" (part_001 439)
ForceOn(e) == ToLower(firstEnv(e, <<"BLUESKY_FORCE">>, <<>>)) = On

\* aiCondense returns its argument without a request (part_001 344-347)
aiDisabledCli(e) ==
  \/ firstEnv(e, <<"OPENAI_API_KEY">>, <<>>) = <<>>
  \/ ToLower(firstEnv(e, <<"AI_SUMMARY">>, On)) = Off

\* Length of the filler of the long commit title.
LongFill == 300

LongTitle == <<"r", "e", "l", "e", "a", "s", "e", " ", "v", "1", ".", "2", ".", "3", " ", "o", "f", " ", "8", "6", "f", "7", "e", "4", "3", "7", " ">> \o [i \in 1..LongFill |-> "x"]

\* The messages git log prints for the latest commit.
CliMessages ==
  <<<<"f", "i", "x", ":", " ", "r", "e", "l", "e", "a", "s", "e", " ", "v", "1", ".", "2", ".", "3">>,
    <<"s", "h", "i", "p", " ", "@", "P", "u", "b", "l", "i", "s", "h">>,
    <<"d", "o", "c", "s", ":", " ", "t", "y", "p", "o">>,
    <<"v", "2", ".", "0", ".", "0", " ", "@", "p", "u", "b", "l", "i", "s", "h", "\n", "\n", "s", "e", "e", " ", "8", "6", "f", "7", "e", "4", "3">>,
    LongTitle>>

CliShas == <<ShaA, ShaB, ShaA, ShaB, ShaC>>

\* The repository data fetchGitHubRepoData returns: none, without topics, with
\* topics (part_001 191-222).
RepoDataOf(topics, description, homepage) ==
  [topics |-> topics, name |-> <<"a">>, description |-> description,
   htmlUrl |-> GitHubUrl \o <<"o", "/", "a">>, homepage |-> homepage]

RepoDatas ==
  {NullRec, RepoDataOf(<<>>, <<>>, Undefined),
   RepoDataOf(<< <<"d", "e", "n", "o">>, <<"t", "y", "p", "e", "s", "c", "r", "i", "p", "t">>, <<"b", "l", "u", "e", "s", "k", "y", "-", "c", "l", "i", "e", "n", "t">> >>,
              <<"a", " ", "b", "o", "t">>,
              <<"h", "t", "t", "p", "s", ":", "/", "/", "a", ".", "d", "e", "v">>)}

\* The CommitInfo of latestCommitInfo for the i-th commit; the remote is a
\* GitHub repository when github is TRUE.
CommitInfoOf(i, github, repoData) ==
  LET repo == IF github THEN <<"o", "/", "a">> ELSE <<>>
  IN  [sha |-> CliShas[i], message |-> Trim(CliMessages[i]), author |-> <<"A", "l">>,
       repo |-> repo,
       commitUrl |-> IF github
                     THEN GitHubUrl \o repo \o <<"/", "c", "o", "m", "m", "i", "t", "/">> \o CliShas[i]
                     ELSE <<>>,
       repoData |-> IF github THEN repoData ELSE NullRec]

NoCommit == [CommitInfoOf(3, FALSE, NullRec) EXCEPT !.sha = <<>>]

\* shouldPost, gate 1 (part_001 448, .githooks/bluesky-bot/mod.ts 251;
\* scripts/bluesky-post.ts 127): TRUE when the commit is skipped.
GateSkips_AllAnd(prog, message) ==
  ~hasPublishKeyword(message) \/ ~hasSemver(message)

GateSkips(prog, message) ==
  IF prog = ProgScript
  THEN ~hasPublishKeyword(message) \/ ~hasSemver(message)
  ELSE ~hasPublishKeyword(message) /\ ~hasSemver(message)

\* hasSeenSha (part_001 321-328): some line of the file, trimmed, is the sha;
\* false from the catch when Deno.readTextFile throws (readable is FALSE).
hasSeenSha(file, readable, sha) ==
  LET lines == Split(file, "\n")
  IN  readable /\ \E i \in 1..Len(lines) : Trim(lines[i]) = sha

\* The variant of markSeenSha that writes the file anew.
markSeenSha_Overwrites(file, sha, written) ==
  IF written THEN sha \o <<"\n">> ELSE file

\* markSeenSha (part_001 330-338): the sha and a newline are appended; when
\* the write throws the error is ignored and the file is as it was.
markSeenSha(file, sha, written) ==
  IF written THEN file \o sha \o <<"\n">> ELSE file

\* The text composePost gives aiCondense (part_001 481-482).
Sanitized(commit) == stripCommitHashes(FirstLine(commit.message))

HasTopics(commit) ==
  commit.repoData # NullRec /\ Len(commit.repoData.topics) > 0

\* composePost after aiCondense returned condensed (part_001 488-496).
composePost(commit, condensed) ==
  LET topics == commit.repoData.topics
      topicHashtags ==
        IF HasTopics(commit)
        THEN <<"\n">> \o Join([i \in 1..Len(topics) |-> topicToHashtag(topics[i])], <<" ">>)
        ELSE <<>>
  IN  Trim(Join(FilterNonEmpty(<<condensed, topicHashtags>>), <<"\n">>))

\* composePost of .githooks/bluesky-bot/mod.ts (lines 271-272).
composePostHook(commit, condensed) ==
  LET repoUrl == IF commit.repo # <<>> THEN GitHubUrl \o commit.repo ELSE <<>>
  IN  Trim(IF repoUrl # <<>> THEN condensed \o <<"\n">> \o repoUrl ELSE condensed)

\* The text of scripts/bluesky-post.ts (lines 138-144).
scriptText(commit) ==
  LET firstLine == FirstLine(commit.message)
      tag == <<"#", "g", "h", "_">> \o shortSha(commit.sha)
      byline == IF commit.repo # <<>>
                THEN commit.repo \o <<" ", "b", "y", " ">> \o commit.author
                ELSE commit.author
      suffix == Join(FilterNonEmpty(<<commit.commitUrl, tag>>), <<" ">>)
  IN  Join(FilterNonEmpty(<<firstLine,
                            <<"emdash", " ">> \o byline \o <<" ", "(">> \o shortSha(commit.sha)
                               \o <<")">>,
                            suffix>>), <<" ">>)

\* The text the program posts once the summarizer returned condensed.
TextOf(prog, commit, condensed) ==
  CASE prog = ProgMod -> composePost(commit, condensed)
    [] prog = ProgHook -> composePostHook(commit, condensed)
    [] prog = ProgScript -> scriptText(commit)

\* Number of runs of the program on the same latest commit.
MaxRuns == 2

NoCliEffects == [git |-> 0, gate |-> 0, seenRead |-> 0, ai |-> 0, login |-> 0, post |-> 0, mark |-> 0]

NoConfig ==
  [ok |-> FALSE, service |-> <<>>, handle |-> <<>>, password |-> <<>>, dryRun |-> FALSE]

\* No run has ended yet.
NoOutcome == [code |-> -1, kind |-> ""]

\* A run that has just been started (import.meta.main); commit is the latest
\* commit as an earlier run read it, prev is how the run before it ended.
StartCli(prog, run, commit, prev) ==
  [prog |-> prog, pc |-> "start", run |-> run, prev |-> prev,
   config |-> NoConfig,
   commit |-> commit, text |-> <<>>, submitted |-> Undefined,
   code |-> -1, out |-> <<>>, did |-> NoCliEffects]

\* console.log / console.error of one line
Log(c, tag, text) == [c EXCEPT !.out = Append(@, [tag |-> tag, text |-> text])]

\* The run ends with exit code n.
Exit(c, n) == [c EXCEPT !.pc = "exit", !.code = n]

InitCli ==
  /\ env \in CliEnvs
  /\ \E prog \in Progs : cli = StartCli(prog, 1, NoCommit, NoOutcome)
  /\ seen = <<>>
  /\ kv = <<>>
  /\ bskyAgent = 0
  /\ agentInit = 0
  /\ logins = <<>>
  /\ feed = <<>>
  /\ clock = 1
  /\ req = [r \in Reqs |-> IdleReq]
  /\ call = NoCall

\* loadDotenv without a .env file, then Deno.env.toObject() and loadConfig
\* (part_001 557-568; scripts/bluesky-post.ts 115-122).  Deno.env.toObject()
\* throws when the environment may not be read: run catches the exception
\* (part_001 610-613), and so does the runtime for the script.
CliStart ==
  /\ cli.pc = "start"
  /\ LET cfg == ConfigOf(cli.prog, env)
     IN  \/ cli' = Exit(Log(cli, "unexpected", <<>>), 1)
         \/ cli' = IF ~cfg.ok THEN Exit(Log(cli, "error_config", <<>>), 1)
                   ELSE [cli EXCEPT !.pc = "git", !.config = cfg]
  /\ UNCHANGED <<seen, env, kv, bskyAgent, agentInit, logins, feed, clock, req, call>>

\* latestCommitInfo (part_001 250-317): git fails, or the latest commit is read
\* and, by part_001 for a GitHub remote, api.github.com is asked for the
\* repository (fetchGitHubRepoData, part_001 191-222).  A later run reads the
\* same commit and asks GitHub again: repoData is what GitHub answers then.
CliGit ==
  /\ cli.pc = "git"
  /\ \/ cli' = Exit(Log(cli, "error_git", <<>>), 1)
     \/ /\ cli.commit = NoCommit
        /\ \E i \in 1..Len(CliMessages), github \in BOOLEAN, rd \in RepoDatas :
             /\ (cli.prog # ProgMod \/ ~github) => rd = NullRec
             /\ LET c == CommitInfoOf(i, github, rd)
                IN  cli' = [cli EXCEPT !.pc = "gate", !.commit = c, !.did.git = 1]
     \/ /\ cli.commit # NoCommit
        /\ \E rd \in RepoDatas :
             /\ (cli.prog # ProgMod \/ cli.commit.repo = <<>>) => rd = NullRec
             /\ cli' = [cli EXCEPT !.pc = "gate", !.commit.repoData = rd, !.did.git = 1]
  /\ UNCHANGED <<seen, env, kv, bskyAgent, agentInit, logins, feed, clock, req, call>>

\* shouldPost up to its call of hasSeenSha (part_001 438-456).
CliGate ==
  /\ cli.pc = "gate"
  /\ cli' =
       IF cli.prog = ProgMod /\ ForceOn(env)
       THEN [Log(cli, "force", <<>>) EXCEPT !.pc = "compose"]
       ELSE LET c == [cli EXCEPT !.did.gate = 1]
            IN  IF GateSkips(cli.prog, cli.commit.message)
                THEN Exit(Log(c, "skip_gate", <<>>), 0)
                ELSE [c EXCEPT !.pc = "seen"]
  /\ UNCHANGED <<seen, env, kv, bskyAgent, agentInit, logins, feed, clock, req, call>>

\* hasSeenSha returns (part_001 456-461).
CliSeen ==
  /\ cli.pc = "seen"
  /\ LET c == [cli EXCEPT !.did.seenRead = 1]
     IN  \E readable \in BOOLEAN :
           cli' = IF hasSeenSha(seen, readable, cli.commit.sha)
                  THEN Exit(Log(c, "skip_seen", <<>>), 0)
                  ELSE [c EXCEPT !.pc = "compose"]
  /\ UNCHANGED <<seen, env, kv, bskyAgent, agentInit, logins, feed, clock, req, call>>

\* What aiCondense(text) can return (part_001 342-390): text when it is
\* disabled, when fetch throws and when the response is not ok; the trimmed
\* content of the first choice, or the trimmed text when there is none.
CliCondensed(prog, e, text) ==
  IF prog = ProgScript \/ aiDisabledCli(e) THEN {text}
  ELSE {text, Trim(text)} \cup {Trim(c) : c \in AiReplies}

\* composePost (part_001 480-497).
CliCompose ==
  /\ cli.pc = "compose"
  /\ \E condensed \in CliCondensed(cli.prog, env, Sanitized(cli.commit)) :
       cli' = [cli EXCEPT !.pc = "publish",
                          !.text = TextOf(cli.prog, cli.commit, condensed),
                          !.did.ai = IF cli.prog = ProgScript \/ aiDisabledCli(env)
                                     THEN 0 ELSE 1]
  /\ UNCHANGED <<seen, env, kv, bskyAgent, agentInit, logins, feed, clock, req, call>>

\* createExternalEmbed (part_001 464-478)
createExternalEmbed(repoData) ==
  [uri |-> IF repoData.homepage # Undefined THEN repoData.homepage ELSE repoData.htmlUrl,
   title |-> repoData.name,
   description |-> IF repoData.description # <<>> THEN repoData.description
                   ELSE <<"G", "i", "t", "H", "u", "b", " ", "r", "e", "p", "o", "s", "i", "t", "o", "r", "y">>]

\* The embed publishPost builds (part_001 505); the other two programs post
\* no embed.
EmbedOf(prog, commit) ==
  IF prog = ProgMod /\ commit.repoData # NullRec
  THEN createExternalEmbed(commit.repoData) ELSE NullRec

\* The lines of a dry run (part_001 507-515).
LogDryRun(c, text, embed) ==
  IF embed = NullRec THEN Log(c, "dryrun", text)
  ELSE Log(Log(Log(Log(Log(c, "dryrun", text), "dryrun_embed", <<>>),
                   "embed_title", embed.title), "embed_url", embed.uri),
           "embed_description", embed.description)

\* publishPost up to createAgent (part_001 499-522).
CliPublish_IgnoresDryRun ==
  /\ cli.pc = "publish"
  /\ cli' = [cli EXCEPT !.pc = "login", !.did.login = 1]
  /\ UNCHANGED <<seen, env, kv, bskyAgent, agentInit, logins, feed, clock, req, call>>

CliPublish ==
  /\ cli.pc = "publish"
  /\ cli' = IF cli.config.dryRun
            THEN Exit(LogDryRun(cli, cli.text, EmbedOf(cli.prog, cli.commit)), 0)
            ELSE [cli EXCEPT !.pc = "login", !.did.login = 1]
  /\ UNCHANGED <<seen, env, kv, bskyAgent, agentInit, logins, feed, clock, req, call>>

CliLogin_FailureExitsZero ==
  /\ cli.pc = "login"
  /\ \/ cli' = Exit(Log(cli, "error_auth", <<>>), 0)
     \/ cli' = [cli EXCEPT !.pc = "post", !.submitted = cli.text, !.did.post = 1]
  /\ UNCHANGED <<seen, env, kv, bskyAgent, agentInit, logins, feed, clock, req, call>>

\* createAgent returns (part_001 394-409, 524-540): the login failed, or
\* agent.post is called with the text.
CliLogin ==
  /\ cli.pc = "login"
  /\ \/ cli' = Exit(Log(cli, "error_auth", <<>>), 1)
     \/ cli' = [cli EXCEPT !.pc = "post", !.submitted = cli.text, !.did.post = 1]
  /\ UNCHANGED <<seen, env, kv, bskyAgent, agentInit, logins, feed, clock, req, call>>

\* agent.post returns or throws (part_001 535-550).
CliPost ==
  /\ cli.pc = "post"
  /\ \/ /\ cli' = Exit(Log(cli, "error_post", <<>>), 1)
        /\ feed' = feed
     \/ /\ cli' = [cli EXCEPT !.pc = "mark"]
        /\ feed' = Append(feed, [key |-> cli.commit.sha, text |-> cli.submitted,
                                 uri |-> Len(feed) + 1, by |-> 0])
  /\ UNCHANGED <<seen, env, kv, bskyAgent, agentInit, logins, clock, req, call>>

\* markSeenSha appends the sha, or fails and is ignored (part_001 330-338);
\* the run ends with exit code 0 (part_001 542-544, 609).
CliMark ==
  /\ cli.pc = "mark"
  /\ \E written \in BOOLEAN :
       /\ seen' = markSeenSha(seen, cli.commit.sha, written)
       /\ cli' = Exit(Log([cli EXCEPT !.did.mark = IF written THEN 1 ELSE 0], "posted", <<>>), 0)
  /\ UNCHANGED <<env, kv, bskyAgent, agentInit, logins, feed, clock, req, call>>

\* How a finished run ended: its exit code, and whether it published,
\* previewed the post, skipped the commit or failed.
Outcome(c) ==
  LET last == c.out[Len(c.out)].tag
  IN  [code |-> c.code,
       kind |-> CASE last = "posted" -> "published"
                  [] last \in {"dryrun", "embed_description"} -> "previewed"
                  [] last \in {"skip_gate", "skip_seen"} -> "skipped"
                  [] OTHER -> "failed"]

\* The program is run again on the same latest commit; BLUESKY_DRYRUN and
\* BLUESKY_FORCE may be set differently for the new run.
CliRerun ==
  /\ cli.pc = "exit"
  /\ cli.run < MaxRuns
  /\ cli' = StartCli(cli.prog, cli.run + 1, cli.commit, Outcome(cli))
  /\ \E e \in CliEnvs :
       /\ [e EXCEPT !.BLUESKY_DRYRUN = env.BLUESKY_DRYRUN,
                    !.BLUESKY_FORCE = env.BLUESKY_FORCE] = env
       /\ env' = e
  /\ UNCHANGED <<seen, kv, bskyAgent, agentInit, logins, feed, clock, req, call>>

NextCli ==
  \/ CliStart
  \/ CliGit
  \/ CliGate
  \/ CliSeen
  \/ CliCompose
  \/ CliPublish
  \/ CliLogin
  \/ CliPost
  \/ CliMark
  \/ CliRerun

\* Runs of the three command-line posters under every environment.
SpecCli == InitCli /\ [][NextCli]_vars

\* ------------------------------------------------------------------------
\* Direct calls of repoAllowed and verifyGitHubSignature
\* ------------------------------------------------------------------------
AllowPats ==
  { <<"*">>, <<"o", "/", "*">>, <<"*", "/", "a">>, <<"o", "/", "a">>,
    <<"m", "y", "o", "r", "g", "/", "*">> }

RepoNames ==
  { <<"o", "/", "a">>, <<"o", "/", "b">>, <<"x", "/", "a">>, <<"O", "/", "a">>,
    <<"m", "y", "o", "r", "g", "/", "a", "p", "p", "1">>,
    <<"o", "t", "h", "e", "r", "/", "a", "p", "p", "1">> }

\* Longest allowlist, in patterns.
MaxPatterns == 2

PatternLists == UNION {[1..n -> AllowPats] : n \in 0..MaxPatterns}

\* The REPO_ALLOWLIST an operator writes for a list of patterns: "p, q".
RECURSIVE JoinComma(_)
JoinComma(l) ==
  IF l = <<>> THEN <<>>
  ELSE IF Len(l) = 1 THEN l[1]
  ELSE l[1] \o <<",", " ">> \o JoinComma(Tail(l))

InitAllow ==
  /\ \E l \in PatternLists, c \in ConcConfigs, repo \in RepoNames :
       /\ env = [c EXCEPT !.REPO_ALLOWLIST = JoinComma(l)]
       /\ call = [fn |-> "repoAllowed", patterns |-> l, repo |-> repo,
                  done |-> FALSE, ret |-> FALSE]
  /\ kv = <<>>
  /\ bskyAgent = 0
  /\ agentInit = 0
  /\ logins = <<>>
  /\ feed = <<>>
  /\ clock = 1
  /\ req = [r \in Reqs |-> IdleReq]
  /\ cli = NoCli
  /\ seen = <<>>

CallRepoAllowed ==
  /\ call.fn = "repoAllowed"
  /\ ~call.done
  /\ call' = [call EXCEPT !.done = TRUE,
                          !.ret = repoAllowed(AllowPatterns(env.REPO_ALLOWLIST), call.repo)]
  /\ UNCHANGED <<cli, seen, env, kv, bskyAgent, agentInit, logins, feed, clock, req>>

NextAllow == CallRepoAllowed

\* repoAllowed called for every allowlist and repository of the bounds.
SpecAllow == InitAllow /\ [][NextAllow]_vars

\* Longest request body of the signature specification, in bytes.
MaxBody == 2

SigBytes == {0, 1, 255}
SigBodies == UNION {[1..n -> SigBytes] : n \in 0..MaxBody}
MutChars == {"0", "A", "g"}

SigCases(secret, body) ==
  LET good == SignedBy(secret, body)
  IN  {[kind |-> "valid", sig |-> good, raw |-> body],
       [kind |-> "missing", sig |-> Null, raw |-> body]}
      \cup {[kind |-> "sigchar", sig |-> [good EXCEPT ![i] = c], raw |-> body] :
              i \in 1..Len(good), c \in MutChars} 
      \cup {[kind |-> "bodybyte", sig |-> good, raw |-> [body EXCEPT ![i] = b]] :
              i \in 1..Len(body), b \in SigBytes}

InitSig ==
  /\ \E secret \in {Secret, WrongSecret}, c \in ConcConfigs, body \in SigBodies :
       \E t \in SigCases(secret, body) :
          /\ env = [c EXCEPT !.GITHUB_WEBHOOK_SECRET = secret]
          /\ call = [fn |-> "verifyGitHubSignature", kind |-> t.kind, sig |-> t.sig,
                     raw |-> t.raw, signed |-> body, done |-> FALSE, ret |-> FALSE,
                     compared |-> 0]
  /\ kv = <<>>
  /\ bskyAgent = 0
  /\ agentInit = 0
  /\ logins = <<>>
  /\ feed = <<>>
  /\ clock = 1
  /\ req = [r \in Reqs |-> IdleReq]
  /\ cli = NoCli
  /\ seen = <<>>

CallVerify ==
  /\ call.fn = "verifyGitHubSignature"
  /\ ~call.done
  /\ call' = [call EXCEPT !.done = TRUE,
                          !.ret = verifyGitHubSignature(env.GITHUB_WEBHOOK_SECRET,
                                                        call.sig, call.raw),
                          !.compared = ComparedPositions(env.GITHUB_WEBHOOK_SECRET,
                                                         call.sig, call.raw)]
  /\ UNCHANGED <<cli, seen, env, kv, bskyAgent, agentInit, logins, feed, clock, req>>

NextSig == CallVerify

\* verifyGitHubSignature called on signed, unsigned and altered requests.
SpecSig == InitSig /\ [][NextSig]_vars

\* ------------------------------------------------------------------------
\* Direct calls of hasSemver and hasPublishKeyword
\* ------------------------------------------------------------------------
\* Version-like tokens and what surrounds them in a commit message.
VersionTokens ==
  {<<"1", ".", "2", ".", "3">>,
   <<"v", "2", ".", "0", ".", "0", "-", "b", "e", "t", "a", ".", "1">>,
   <<"2", ".", "0", ".", "0", "+", "b", "u", "i", "l", "d", ".", "5">>,
   <<"1", ".", "2">>,
   <<"0", "1", ".", "2", ".", "3">>,
   <<"V", "1", "0", ".", "2", "0", ".", "3", "0">>,
   <<"v", "1", ".", "2">>,
   <<"1", ".", "2", ".", "3", "-", "r", "c", ".", "1", "+", "b", ".", "7">>}

MarkerTokens ==
  {<<"@", "p", "u", "b", "l", "i", "s", "h">>,
   <<"@", "P", "U", "B", "L", "I", "S", "H">>,
   <<"@", "P", "u", "b", "l", "i", "s", "h">>,
   <<"n", "o", "t", "p", "u", "b", "l", "i", "s", "h">>,
   <<"e", "m", "a", "i", "l", "@", "p", "u", "b", "l", "i", "s", "h", ".", "c", "o", "m">>,
   <<"@", "p", "u", "b", "l", "i", "s", "h", "i", "n", "g">>,
   <<"a", "@", "p", "u", "b", "l", "i", "s", "h">>,
   <<"_", "@", "p", "u", "b", "l", "i", "s", "h">>,
   <<"@", "p", "u", "b", "l", "i", "s", "h", "_">>,
   <<"@", "p", "u", "b", "l", "i", "s", "h", "9">>,
   <<"p", "u", "b", "l", "i", "s", "h">>,
   <<"@", " ", "p", "u", "b", "l", "i", "s", "h">>}

Prefixes == {<<>>,
   <<"r", "e", "l", "e", "a", "s", "e", " ">>,
   <<"(">>,
   <<"f", "e", "a", "t", ":", " ", "x", " ">>,
   <<"b", "u", "m", "p", "\n">>}
Suffixes == {<<>>,
   <<" ", "n", "o", "w">>,
   <<")">>,
   <<",", " ", "s", "e", "e", " ", "n", "o", "t", "e", "s">>}

InitGate ==
  /\ \E fn \in {"hasSemver", "hasPublishKeyword"}, pre \in Prefixes, suf \in Suffixes :
       \E token \in (IF fn = "hasSemver" THEN VersionTokens ELSE MarkerTokens) :
          call = [fn |-> fn, token |-> token, msg |-> pre \o token \o suf,
                  done |-> FALSE, ret |-> FALSE]
  /\ env \in ConcConfigs
  /\ kv = <<>>
  /\ bskyAgent = 0
  /\ agentInit = 0
  /\ logins = <<>>
  /\ feed = <<>>
  /\ clock = 1
  /\ req = [r \in Reqs |-> IdleReq]
  /\ cli = NoCli
  /\ seen = <<>>

CallHasSemver ==
  /\ call.fn = "hasSemver"
  /\ ~call.done
  /\ call' = [call EXCEPT !.done = TRUE, !.ret = hasSemver(call.msg)]
  /\ UNCHANGED <<cli, seen, env, kv, bskyAgent, agentInit, logins, feed, clock, req>>

CallHasPublishKeyword ==
  /\ call.fn = "hasPublishKeyword"
  /\ ~call.done
  /\ call' = [call EXCEPT !.done = TRUE, !.ret = hasPublishKeyword(call.msg)]
  /\ UNCHANGED <<cli, seen, env, kv, bskyAgent, agentInit, logins, feed, clock, req>>

NextGate ==
  \/ CallHasSemver
  \/ CallHasPublishKeyword

\* hasSemver and hasPublishKeyword called on messages around each token.
SpecGate == InitGate /\ [][NextGate]_vars

\* ------------------------------------------------------------------------
\* Direct calls of fitPost and fitTweet
\* ------------------------------------------------------------------------
\* How many characters over the limit the longest text is.
MaxOver == 3

\* Largest limit passed explicitly as the second argument.
MaxSmallLimit == 4

\* A text of n characters; its i-th character depends on i and on seed.
TextOfLen(n, seed) == [i \in 1..n |-> HexDigits[((i + seed) % 16) + 1]]

\* The lengths around the limit max.
LensAround(max) ==
  {0, 1} \cup {n \in (max - 2)..(max + MaxOver) : n >= 0}

\* max is 0 when the caller leaves the second argument out.
InitFit ==
  /\ \E fn \in {"fitPost", "fitTweet"}, max \in 0..MaxSmallLimit, seed \in 0..2 :
       \E n \in LensAround(IF max # 0 THEN max
                           ELSE IF fn = "fitPost" THEN POST_CHAR_LIMIT ELSE FitTweetMax) :
          call = [fn |-> fn, s |-> TextOfLen(n, seed), max |-> max,
                  done |-> FALSE, ret |-> <<>>]
  /\ env \in ConcConfigs
  /\ kv = <<>>
  /\ bskyAgent = 0
  /\ agentInit = 0
  /\ logins = <<>>
  /\ feed = <<>>
  /\ clock = 1
  /\ req = [r \in Reqs |-> IdleReq]
  /\ cli = NoCli
  /\ seen = <<>>

CallFitPost ==
  /\ call.fn = "fitPost"
  /\ ~call.done
  /\ call' = [call EXCEPT !.done = TRUE,
                          !.ret = fitPost(call.s, IF call.max = 0 THEN POST_CHAR_LIMIT
                                                  ELSE call.max)]
  /\ UNCHANGED <<cli, seen, env, kv, bskyAgent, agentInit, logins, feed, clock, req>>

CallFitTweet ==
  /\ call.fn = "fitTweet"
  /\ ~call.done
  /\ call' = [call EXCEPT !.done = TRUE,
                          !.ret = fitTweet(call.s, IF call.max = 0 THEN FitTweetMax
                                                   ELSE call.max)]
  /\ UNCHANGED <<cli, seen, env, kv, bskyAgent, agentInit, logins, feed, clock, req>>

NextFit ==
  \/ CallFitPost
  \/ CallFitTweet

\* fitPost and fitTweet called on texts around the limit.
SpecFit == InitFit /\ [][NextFit]_vars

\* ------------------------------------------------------------------------
\* Direct calls of the first-line expression of each program
\* ------------------------------------------------------------------------
\* First lines of commit messages: white space around them, a carriage
\* return, a backslash followed by n in the text.
FirstLineHeads ==
  {<<>>,
   <<"f", "i", "x", ":", " ", "r", "e", "l", "e", "a", "s", "e", " ", "v", "1", ".", "2", ".", "3">>,
   <<" ", "s", "h", "i", "p", " ", "@", "p", "u", "b", "l", "i", "s", "h", " ">>,
   <<"a", "d", "d", " ", "\\", "n", " ", "e", "s", "c", "a", "p", "e">>,
   <<"b", "u", "m", "p", "\r">>}

\* What follows the first line: nothing, a newline, further lines.
FirstLineRests ==
  {<<>>,
   <<"\n">>,
   <<"\n", "\n", "b", "o", "d", "y">>,
   <<"\n", "s", "e", "e", " ", "\\", "n", " ", "n", "o", "t", "e">>,
   <<"\n", " ", "d", "e", "t", "a", "i", "l", "s", "\n", "m", "o", "r", "e", "\n">>}

\* The programs that build a post from a commit message.
FirstLinePrograms == {"server", "mod", "hook", "script", "twitter"}

InitFirstLine ==
  /\ \E prog \in FirstLinePrograms, head \in FirstLineHeads, rest \in FirstLineRests :
       call = [fn |-> "firstLine", prog |-> prog, msg |-> head \o rest,
               done |-> FALSE, ret |-> <<>>]
  /\ env \in ConcConfigs
  /\ kv = <<>>
  /\ bskyAgent = 0
  /\ agentInit = 0
  /\ logins = <<>>
  /\ feed = <<>>
  /\ clock = 1
  /\ req = [r \in Reqs |-> IdleReq]
  /\ cli = NoCli
  /\ seen = <<>>

\* const firstLine = fullMsg.split("\n")[0].trim() (main.ts 218)
CallFirstLineServer ==
  /\ call.fn = "firstLine"
  /\ call.prog = "server"
  /\ ~call.done
  /\ call' = [call EXCEPT !.done = TRUE, !.ret = FirstLine(call.msg)]
  /\ UNCHANGED <<cli, seen, env, kv, bskyAgent, agentInit, logins, feed, clock, req>>

\* The same expression of the command-line posters (part_001 481,
\* .githooks/bluesky-bot/mod.ts 268, scripts/bluesky-post.ts 138).
CallFirstLineCli ==
  /\ call.fn = "firstLine"
  /\ call.prog \in {"mod", "hook", "script"}
  /\ ~call.done
  /\ call' = [call EXCEPT !.done = TRUE, !.ret = FirstLine(call.msg)]
  /\ UNCHANGED <<cli, seen, env, kv, bskyAgent, agentInit, logins, feed, clock, req>>

\* const firstLine = fullMsg.split("\\n")[0].trim() (part_003 222)
CallFirstLineTwitter ==
  /\ call.fn = "firstLine"
  /\ call.prog = "twitter"
  /\ ~call.done
  /\ call' = [call EXCEPT !.done = TRUE, !.ret = TwFirstLine(call.msg)]
  /\ UNCHANGED <<cli, seen, env, kv, bskyAgent, agentInit, logins, feed, clock, req>>

NextFirstLine ==
  \/ CallFirstLineServer
  \/ CallFirstLineCli
  \/ CallFirstLineTwitter

\* The first-line expression of every program applied to commit messages of
\* one and of several lines.
SpecFirstLine == InitFirstLine /\ [][NextFirstLine]_vars

\* ------------------------------------------------------------------------
\* Direct calls of loadDotenv
\* ------------------------------------------------------------------------
\* s.indexOf(ch) for a one-character ch, 0-based; -1 when absent.
IndexOf(s, ch) ==
  IF \E i \in 1..Len(s) : s[i] = ch
  THEN (CHOOSE i \in 1..Len(s) : s[i] = ch /\ \A j \in 1..(i - 1) : s[j] # ch) - 1
  ELSE -1

EndsWith(s, p) == Len(s) >= Len(p) /\ Slice(s, Len(s) - Len(p), Len(s)) = p

\* The process environment is a function from variable names to values;
\* Deno.env.get of a name outside its domain is undefined.
EnvGet(e, key) == IF key \in DOMAIN e THEN e[key] ELSE Undefined

EnvSet(e, key, val) ==
  [k \in DOMAIN e \cup {key} |-> IF k = key THEN val ELSE e[k]]

\* The key of one trimmed line of .env that has "=" at 0-based position eq.
DotenvKey(line, eq) ==
  LET key == Trim(Slice(line, 0, eq))
  IN  IF StartsWith(ToLower(key), <<"e", "x", "p", "o", "r", "t", " ">>)
      THEN Trim(Slice(key, 7, Len(key)))
      ELSE key

\* The value of that line: one pair of surrounding quotes is removed.
DotenvVal(line, eq) ==
  LET val == Trim(Slice(line, eq + 1, Len(line)))
  IN  IF \/ StartsWith(val, <<"dquote">>) /\ EndsWith(val, <<"dquote">>)
         \/ StartsWith(val, <<"'">>) /\ EndsWith(val, <<"'">>)
      THEN Slice(val, 1, Len(val) - 1)
      ELSE val

\* The variant of the loop body that sets the variable whether or not the
\* process environment already has it.
DotenvLine_Overrides(e, rawLine, canSet) ==
  LET line == Trim(rawLine)
      eq == IndexOf(line, "=")
  IN  IF line = <<>> \/ StartsWith(line, <<"#">>) THEN e
      ELSE IF eq <= 0 THEN e
      ELSE IF canSet THEN EnvSet(e, DotenvKey(line, eq), DotenvVal(line, eq))
      ELSE e

\* One iteration of the loop of loadDotenv over the lines of the file.
\* Deno.env.set throws when canSet is false and the error is ignored.
DotenvLine(e, rawLine, canSet) ==
  LET line == Trim(rawLine)
      eq == IndexOf(line, "=")
  IN  IF line = <<>> \/ StartsWith(line, <<"#">>) THEN e
      ELSE IF eq <= 0 THEN e
      ELSE IF EnvGet(e, DotenvKey(line, eq)) = Undefined /\ canSet
           THEN EnvSet(e, DotenvKey(line, eq), DotenvVal(line, eq))
      ELSE e

RECURSIVE DotenvLines(_, _, _)
DotenvLines(e, lines, canSet) ==
  IF lines = <<>> THEN e
  ELSE DotenvLines(DotenvLine(e, Head(lines), canSet), Tail(lines), canSet)

\* loadDotenv(file): txt is Null when the file cannot be read, and the
\* environment is left alone.
loadDotenv(e, txt, canSet) ==
  IF txt = Null THEN e ELSE DotenvLines(e, Split(txt, "\n"), canSet)

\* The largest number of lines of a .env file.
MaxLines == 2

DotenvLineTexts ==
  { <<"A", "=", "1">>,
    <<"B", "=", "2">>,
    <<"e", "x", "p", "o", "r", "t", " ", "A", "=", "3">>,
    <<"E", "x", "p", "o", "r", "t", " ", " ", "B", " ", "=", " ", "4", " ">>,
    <<"A", "=", "dquote", "q", " ", "dquote">>,
    <<"B", "=", "'", "s", "'">>,
    <<" ", "C", " ", "=", "x", "=", "y", "\r">>,
    <<"#", "A", "=", "5">>,
    <<"=", "v">>,
    <<"A">>,
    <<"A", "=">>,
    <<"B", "=", "dquote">>,
    <<>> }

\* The lines joined with "\n", as they are in the file.
RECURSIVE JoinLines(_)
JoinLines(lines) ==
  IF lines = <<>> THEN <<>>
  ELSE IF Len(lines) = 1 THEN Head(lines)
  ELSE Head(lines) \o <<"\n">> \o JoinLines(Tail(lines))

DotenvFiles ==
  {Null} \cup {JoinLines(ls) : ls \in UNION {[1..n -> DotenvLineTexts] : n \in 1..MaxLines}}

\* Process environments: A is unset, empty or "0"; B is unset or "9".
ProcEnvs ==
  { [k \in ks |-> IF k = <<"A">> THEN a ELSE <<"9">>] :
      ks \in SUBSET {<<"A">>, <<"B">>}, a \in {<<>>, <<"0">>} }

InitDotenv ==
  /\ \E e \in ProcEnvs, txt \in DotenvFiles, canSet \in BOOLEAN :
       call = [fn |-> "loadDotenv", before |-> e, txt |-> txt, canSet |-> canSet,
               done |-> FALSE, after |-> e]
  /\ env \in ConcConfigs
  /\ kv = <<>>
  /\ bskyAgent = 0
  /\ agentInit = 0
  /\ logins = <<>>
  /\ feed = <<>>
  /\ clock = 1
  /\ req = [r \in Reqs |-> IdleReq]
  /\ cli = NoCli
  /\ seen = <<>>

CallLoadDotenv ==
  /\ call.fn = "loadDotenv"
  /\ ~call.done
  /\ call' = [call EXCEPT !.done = TRUE,
                          !.after = loadDotenv(call.before, call.txt, call.canSet)]
  /\ UNCHANGED <<cli, seen, env, kv, bskyAgent, agentInit, logins, feed, clock, req>>

NextDotenv == CallLoadDotenv

\* loadDotenv called on small .env files and process environments.
SpecDotenv == InitDotenv /\ [][NextDotenv]_vars

\* ------------------------------------------------------------------------
\* The installers: src/install.ts and .githooks/bluesky-bot/install.ts
\* ------------------------------------------------------------------------
InstJsr == "install.ts"
InstLocal == ".githooks/bluesky-bot/install.ts"
Installers == {InstJsr, InstLocal}

hookNameDefault == <<"p", "r", "e", "-", "p", "u", "s", "h">>
PostCommit == <<"p", "o", "s", "t", "-", "c", "o", "m", "m", "i", "t">>

ArgForce == <<"-", "-", "f", "o", "r", "c", "e">>
ArgHookPrefix == <<"-", "-", "h", "o", "o", "k", "=">>
ArgHelp == <<"-", "-", "h", "e", "l", "p">>
ArgH == <<"-", "h">>

\* The script each installer writes, named by the command it ends with.
HookScript(prog) ==
  IF prog = InstJsr THEN "exec deno run jsr:@srdjan/bluesky-bot"
  ELSE "exec deno run .githooks/bluesky-bot/mod.ts"

\* A hook the user wrote before the installer ran.
UserHook == [script |-> "user hook", exec |-> TRUE]

\* The loop over Deno.args: code is -1 while the loop has not called
\* Deno.exit.
RECURSIVE ParseArgs(_, _)
ParseArgs(args, st) ==
  IF args = <<>> THEN st
  ELSE LET arg == Head(args)
       IN  IF arg = ArgForce THEN ParseArgs(Tail(args), [st EXCEPT !.force = TRUE])
           ELSE IF StartsWith(arg, ArgHookPrefix)
                THEN LET value == Trim(Slice(arg, Len(ArgHookPrefix), Len(arg)))
                     IN  IF Len(value) = 0 THEN [st EXCEPT !.code = 1]
                         ELSE ParseArgs(Tail(args), [st EXCEPT !.hookName = value])
           ELSE IF arg = ArgHelp \/ arg = ArgH THEN [st EXCEPT !.code = 0]
           ELSE [st EXCEPT !.code = 1]

\* The hooks directory is a function from the names of the files in it.
pathExists(files, path) == path \in DOMAIN files

\* Deno.writeTextFile: a new file is not executable, an existing one keeps
\* its mode.
WriteTextFile(files, path, text) ==
  [p \in DOMAIN files \cup {path} |->
     IF p = path
     THEN [script |-> text, exec |-> IF path \in DOMAIN files THEN files[path].exec ELSE FALSE]
     ELSE files[p]]

\* Deno.chmod(path, 0o755)
Chmod(files, path) == [files EXCEPT ![path].exec = TRUE]

\* The argument lists the installers are run with.
ArgLists ==
  { <<>>,
    <<ArgForce>>,
    <<ArgHookPrefix \o PostCommit>>,
    <<ArgHookPrefix \o <<" ">> \o PostCommit, ArgForce>>,
    <<ArgForce, ArgHelp>>,
    <<ArgH, <<"-", "-", "b", "o", "g", "u", "s">>>>,
    <<<<"-", "-", "b", "o", "g", "u", "s">>, ArgForce>>,
    <<ArgHookPrefix \o <<" ">>>> }

\* The hooks directories an installer may find.
HookDirs ==
  { [p \in ps |-> UserHook] : ps \in SUBSET {hookNameDefault, PostCommit} }

\* How many times the installer is run in a row.
MaxInstalls == 2

\* A run of the installer that has not parsed its arguments yet.  before is
\* the hooks directory as the run found it.
StartInstall(prog, run, args, files, dotenv, example, os) ==
  [fn |-> "install", prog |-> prog, run |-> run, args |-> args, pc |-> "args",
   hookName |-> hookNameDefault, force |-> FALSE, code |-> -1, why |-> "",
   files |-> files, before |-> files, dotenv |-> dotenv, example |-> example,
   os |-> os]

InitInstall ==
  /\ \E prog \in Installers, args \in ArgLists, files \in HookDirs,
        dotenv \in {"absent", "user"}, example \in BOOLEAN, os \in {"linux", "windows"} :
       call = StartInstall(prog, 1, args, files, dotenv, example, os)
  /\ env \in ConcConfigs
  /\ kv = <<>>
  /\ bskyAgent = 0
  /\ agentInit = 0
  /\ logins = <<>>
  /\ feed = <<>>
  /\ clock = 1
  /\ req = [r \in Reqs |-> IdleReq]
  /\ cli = NoCli
  /\ seen = <<>>

\* Deno.exit(code), or the end of the module after a complete installation.
InstExit(c, code, why) == [c EXCEPT !.pc = "exit", !.code = code, !.why = why]

\* The top-level loop over Deno.args.
InstArgs ==
  /\ call.fn = "install"
  /\ call.pc = "args"
  /\ LET st == ParseArgs(call.args, [hookName |-> hookNameDefault, force |-> FALSE, code |-> -1])
     IN  call' = IF st.code # -1
                 THEN InstExit(call, st.code, IF st.code = 0 THEN "help" ELSE "args")
                 ELSE [call EXCEPT !.pc = "locate", !.hookName = st.hookName,
                                   !.force = st.force]
  /\ UNCHANGED <<cli, seen, env, kv, bskyAgent, agentInit, logins, feed, clock, req>>

\* getRepoRoot, detectBotLocation and resolveHookDir: git may fail, the bot
\* may not be found, HOME may be unset; each throws into the catch.
InstLocate ==
  /\ call.fn = "install"
  /\ call.pc = "locate"
  /\ \/ call' = InstExit(call, 1, "error")
     \/ call' = [call EXCEPT !.pc = "env"]
  /\ UNCHANGED <<cli, seen, env, kv, bskyAgent, agentInit, logins, feed, clock, req>>

\* installEnvExample: .env is created only when it does not exist; the
\* installer of the hooks directory copies .env.example when there is one.
InstEnv ==
  /\ call.fn = "install"
  /\ call.pc = "env"
  /\ \/ call' = InstExit(call, 1, "error")
     \/ call' = IF call.dotenv # "absent" THEN [call EXCEPT !.pc = "hook"]
                ELSE IF call.prog = InstLocal /\ ~call.example THEN [call EXCEPT !.pc = "hook"]
                ELSE [call EXCEPT !.pc = "hook", !.dotenv = "template"]
  /\ UNCHANGED <<cli, seen, env, kv, bskyAgent, agentInit, logins, feed, clock, req>>

\* The variant of installHook without the test for an existing hook.
InstHook_Overwrites ==
  /\ call.fn = "install"
  /\ call.pc = "hook"
  /\ LET written == WriteTextFile(call.files, call.hookName, HookScript(call.prog))
     IN  \/ call' = InstExit(call, 1, "error")
         \/ call' = [call EXCEPT !.pc = IF call.os # "windows" THEN "chmod" ELSE "validate",
                                 !.files = written]
  /\ UNCHANGED <<cli, seen, env, kv, bskyAgent, agentInit, logins, feed, clock, req>>

\* installHook up to the end of writeTextFile (install.ts 221-260,
\* .githooks/bluesky-bot/install.ts 161-191): mkdir, stat or writeTextFile may
\* throw with the file as it was; an existing hook without --force ends the run;
\* after the write the run waits for chmod, except on windows.
InstHook ==
  /\ call.fn = "install"
  /\ call.pc = "hook"
  /\ LET written == WriteTextFile(call.files, call.hookName, HookScript(call.prog))
     IN  \/ call' = InstExit(call, 1, "error")
         \/ /\ ~call.force /\ pathExists(call.files, call.hookName)
            /\ call' = InstExit(call, 1, "exists")
         \/ /\ ~(~call.force /\ pathExists(call.files, call.hookName))
            /\ call' = [call EXCEPT !.pc = IF call.os # "windows" THEN "chmod" ELSE "validate",
                                    !.files = written]
  /\ UNCHANGED <<cli, seen, env, kv, bskyAgent, agentInit, logins, feed, clock, req>>

\* Deno.chmod(hookPath, 0o755) settles (install.ts 262-264): the hook is made
\* executable, or chmod throws with the hook written.
InstChmod ==
  /\ call.fn = "install"
  /\ call.pc = "chmod"
  /\ \/ call' = InstExit(call, 1, "error")
     \/ call' = [call EXCEPT !.pc = "validate", !.files = Chmod(call.files, call.hookName)]
  /\ UNCHANGED <<cli, seen, env, kv, bskyAgent, agentInit, logins, feed, clock, req>>

\* validateInstallation and the end of the module: exit code 0.
InstValidate ==
  /\ call.fn = "install"
  /\ call.pc = "validate"
  /\ \/ call' = InstExit(call, 1, "error")
     \/ call' = InstExit(call, 0, "installed")
  /\ UNCHANGED <<cli, seen, env, kv, bskyAgent, agentInit, logins, feed, clock, req>>

\* The installer is run again on the directory the last run left.
InstRerun ==
  /\ call.fn = "install"
  /\ call.pc = "exit"
  /\ call.run < MaxInstalls
  /\ \E args \in ArgLists :
       call' = StartInstall(call.prog, call.run + 1, args, call.files, call.dotenv,
                            call.example, call.os)
  /\ UNCHANGED <<cli, seen, env, kv, bskyAgent, agentInit, logins, feed, clock, req>>

NextInstall ==
  \/ InstArgs
  \/ InstLocate
  \/ InstEnv
  \/ InstHook
  \/ InstChmod
  \/ InstValidate
  \/ InstRerun

\* Runs of either installer on a hooks directory.
SpecInstall == InitInstall /\ [][NextInstall]_vars

\* ------------------------------------------------------------------------
\* Direct calls of hasSeenSha and markSeenSha
\* ------------------------------------------------------------------------
\* The largest number of lines of the dedupe file at the start.
MaxSeenLines == 2

\* The largest number of markSeenSha calls.
MaxMarks == 1

\* Lines a dedupe file can hold: a sha, a sha with a carriage return or a
\* leading blank, the first seven characters of a sha, a sha followed by
\* one more character.
SeenLineTexts ==
  {ShaA, ShaA \o <<"\r">>, <<" ">> \o ShaA, shortSha(ShaA), ShaA \o <<"0">>, ShaB}

\* The file with the given lines, each ended by a newline.
RECURSIVE FileOf(_)
FileOf(lines) ==
  IF lines = <<>> THEN <<>> ELSE Head(lines) \o <<"\n">> \o FileOf(Tail(lines))

\* lines is the list of the lines the file was made of, readable is whether
\* Deno.readTextFile succeeds on it.
InitSeen ==
  /\ \E lines \in UNION {[1..n -> SeenLineTexts] : n \in 0..MaxSeenLines},
        readable \in BOOLEAN :
       /\ seen = FileOf(lines)
       /\ call = [fn |-> "dedupe", lines |-> lines, readable |-> readable, marks |-> 0,
                  asked |-> <<>>, ret |-> FALSE, done |-> FALSE]
  /\ env \in ConcConfigs
  /\ kv = <<>>
  /\ bskyAgent = 0
  /\ agentInit = 0
  /\ logins = <<>>
  /\ feed = <<>>
  /\ clock = 1
  /\ req = [r \in Reqs |-> IdleReq]
  /\ cli = NoCli

\* hasSeenSha(sha): false when the file cannot be read.
CallHasSeenSha ==
  /\ call.fn = "dedupe"
  /\ \E sha \in {ShaA, ShaB, ShaC} :
       call' = [call EXCEPT !.asked = sha, !.done = TRUE,
                            !.ret = hasSeenSha(seen, call.readable, sha)]
  /\ UNCHANGED <<cli, seen, env, kv, bskyAgent, agentInit, logins, feed, clock, req>>

\* markSeenSha(sha): the write succeeds or throws.
CallMarkSeenSha ==
  /\ call.fn = "dedupe"
  /\ call.marks < MaxMarks
  /\ \E sha \in {ShaB, ShaC}, written \in BOOLEAN :
       /\ seen' = markSeenSha(seen, sha, written)
       /\ call' = [call EXCEPT !.marks = @ + 1, !.done = FALSE,
                               !.lines = IF written THEN Append(@, sha) ELSE @]
  /\ UNCHANGED <<cli, env, kv, bskyAgent, agentInit, logins, feed, clock, req>>

NextSeen ==
  \/ CallHasSeenSha
  \/ CallMarkSeenSha

\* hasSeenSha and markSeenSha called on dedupe files.
SpecSeen == InitSeen /\ [][NextSeen]_vars

\* ------------------------------------------------------------------------
\* Properties
\* ------------------------------------------------------------------------
Done(r) == req[r].pc = "done"
Res(r) == req[r].resp.result
PushOf(r) == JSONParse(req[r].d.raw)

\* The header is sha256= followed by the HMAC of the body under the secret.
SigValid(r) == req[r].d.sig = SignedBy(env.GITHUB_WEBHOOK_SECRET, req[r].d.raw)

\* Request r is inside blueskyPostStatus.
InPublish(r) == req[r].pc \in {"login", "catch", "post"}

\* The key of a request that reached kv.get: handlePush computes it from the
\* push it was called with (main.ts 208).
ReqKey(rq) ==
  IF rq.pc = "kvget" \/ rq.did.kvget > 0 THEN KeyOf(JSONParse(rq.d.raw)) ELSE <<>>

\* The key a post was published under: a server post is published by request
\* "by" under that request's key, a CLI post under the sha the run recorded.
PostKey(p) == IF p.by \in Reqs THEN ReqKey(req[p.by]) ELSE p.key

\* The posts of the feed made for key k.
PostsFor(k) == {i \in 1..Len(feed) : PostKey(feed[i]) = k}

\* Nothing after the signature check happened in request r.
NothingFurther(r) ==
  /\ req[r].did.event = 0
  /\ req[r].did.parse = 0
  /\ req[r].did.kvget = 0
  /\ req[r].did.kvset = 0
  /\ req[r].did.ai = 0
  /\ req[r].did.publish = 0
  /\ req[r].did.login = 0
  /\ req[r].did.post = 0

\* C1: two concurrent requests for the same (repository, commit) never both
\* pass the dedupe check and both call the publish operation.
C1_NoConcurrentDoublePublish ==
  \A r1, r2 \in Reqs :
     (r1 # r2 /\ ReqKey(req[r1]) # <<>> /\ ReqKey(req[r1]) = ReqKey(req[r2]))
        => ~(InPublish(r1) /\ InPublish(r2))

\* C2: a delivery that arrives after a delivery of the same payload was answered
\* posted is answered skip/already_posted and makes no publish call and no
\* store write; the two deliveries made one publish call and the key has a record.
C2_RedeliverySkips ==
  \A r \in Reqs :
     req[r].prior # {} =>
        /\ req[r].did.publish = 0
        /\ req[r].did.post = 0
        /\ req[r].did.kvset = 0
        /\ \A q \in req[r].prior : req[q].did.publish = 1 /\ ReqKey(req[q]) \in DOMAIN kv
        /\ Done(r) => /\ req[r].resp.code = 200
                      /\ Res(r).status = "skip"
                      /\ Res(r).reason = "already_posted"

C2_Witness ==
  \E r \in Reqs : Done(r) /\ req[r].prior # {} /\ Res(r).reason = "already_posted"

\* C3: a publish call is made only after the dedupe read of the request found
\* no record, and a record is written only after a publish call of the same
\* request returned a post for that key.
C3_CheckThenPublishThenRecord ==
  /\ \A r \in Reqs :
        /\ req[r].did.publish >= 1 => req[r].did.kvget = 1
        /\ (req[r].did.login >= 1 \/ req[r].did.post >= 1) => req[r].did.publish = 1
        /\ req[r].did.kvset >= 1 =>
              \E i \in PostsFor(ReqKey(req[r])) : feed[i].by = r
  /\ \A k \in DOMAIN kv :
        \E i \in PostsFor(k) : kv[k].postUri = feed[i].uri

C3_Witness ==
  \E r \in Reqs : Done(r) /\ Res(r).status = "posted" /\ ReqKey(req[r]) \in DOMAIN kv

\* C4: a request whose publish call failed wrote nothing to the store and its
\* failure is surfaced (status 500); a record exists only for a key with a
\* successful post, so a later delivery is answered already_posted only then.
C4_FailedPublishLeavesKeyUnrecorded ==
  \A r \in Reqs :
     /\ (Done(r) /\ req[r].resp.error \in {"post failed", "login failed"}) =>
           /\ req[r].resp.code = 500
           /\ req[r].did.kvset = 0
           /\ req[r].did.publish = 1
           /\ \A i \in PostsFor(ReqKey(req[r])) : feed[i].by # r
           /\ ReqKey(req[r]) \in DOMAIN kv => PostsFor(ReqKey(req[r])) # {}
     /\ (Done(r) /\ Res(r).reason = "already_posted") => PostsFor(ReqKey(req[r])) # {}
     /\ (req[r].did.kvget = 1 /\ PostsFor(ReqKey(req[r])) = {} /\ req[r].pc # "kvget")
           => req[r].pc \in {"condense", "login", "catch", "post", "done"}
              /\ (Done(r) => req[r].resp.code = 500)

C4_Witness ==
  \E r1, r2 \in Reqs :
     /\ r1 < r2
     /\ Done(r1) /\ req[r1].resp.error = "post failed"
     /\ req[r2].d = req[r1].d
     /\ Done(r2) /\ Res(r2).status = "posted"

\* C5 as stated: a request without a valid signature is answered 401.
C5_BadSignatureIs401 ==
  \A r \in Reqs :
     (Done(r) /\ ~SigValid(r)) => req[r].resp.code = 401 /\ NothingFurther(r)

\* C5 amended: a request without a valid signature is answered 401, or 500
\* when GITHUB_WEBHOOK_SECRET is empty, and nothing further happens.
C5_BadSignatureRejected ==
  \A r \in Reqs :
     (Done(r) /\ ~SigValid(r)) =>
        /\ req[r].resp.code = IF env.GITHUB_WEBHOOK_SECRET = <<>> THEN 500 ELSE 401
        /\ req[r].resp.error = ""
        /\ NothingFurther(r)

C5_Witness ==
  \E r \in Reqs :
     /\ Done(r) /\ req[r].resp.code = 401
     /\ req[r].d.sig = SignedBy(WrongSecret, req[r].d.raw)
     /\ req[r].d.event = EventPush
     /\ IsJson(req[r].d.raw)

\* C6: verifyGitHubSignature accepts the header sha256=<hex HMAC of the body>,
\* rejects it after a change of one character of the header or of one byte of
\* the body, and rejects a missing header.
C6_VerifySignature ==
  (call.fn = "verifyGitHubSignature" /\ call.done) =>
     /\ (call.kind = "valid" => call.ret = TRUE)
     /\ (call.kind = "missing" => call.ret = FALSE)
     /\ (call.kind = "sigchar" /\ call.sig # SignedBy(env.GITHUB_WEBHOOK_SECRET, call.raw))
           => call.ret = FALSE
     /\ (call.kind = "bodybyte" /\ call.raw # call.signed) => call.ret = FALSE

C6_Witness ==
  /\ call.fn = "verifyGitHubSignature" /\ call.done
  /\ call.kind = "sigchar"
  /\ call.sig # SignedBy(env.GITHUB_WEBHOOK_SECRET, call.raw)
  /\ StartsWith(call.sig, Sha256Prefix)
  /\ call.ret = FALSE

ClaimedReasons ==
  {"repo_not_allowed", "no_head_commit", "wrong_branch", "no_semver",
   "no_publish_keyword", "already_posted"}

\* C7 as stated: every response has status 401, 202 or 200.
C7_StatusIs401Or202Or200 ==
  \A r \in Reqs : Done(r) => req[r].resp.code \in {401, 202, 200}

\* C7 amended: every response has status 401 (bad signature), 202 (event not
\* push), 200 (push) or 500 (secret not set, or an exception left route); a 200
\* body has status skip or posted, and a skip has one of the listed reasons.
C7_Responses ==
  \A r \in Reqs :
     Done(r) =>
        /\ req[r].resp.code \in {401, 202, 200, 500}
        /\ req[r].resp.code = 401 <=> (env.GITHUB_WEBHOOK_SECRET # <<>> /\ ~SigValid(r))
        /\ req[r].resp.code = 202 <=>
              (env.GITHUB_WEBHOOK_SECRET # <<>> /\ SigValid(r) /\ req[r].d.event # EventPush)
        /\ req[r].resp.code = 500 =>
              (env.GITHUB_WEBHOOK_SECRET = <<>> \/ req[r].resp.error # "")
        /\ req[r].resp.code = 200 =>
              /\ SigValid(r) /\ req[r].d.event = EventPush
              /\ Res(r).status \in {"skip", "posted"}
              /\ Res(r).status = "skip" => Res(r).reason \in ClaimedReasons
              /\ Res(r).status = "posted" => Res(r).postUri > 0

C7_Witness ==
  \E r \in Reqs :
     Done(r) /\ req[r].resp.code = 200 /\ Res(r).status = "skip" /\ Res(r).reason = "no_semver"

\* The checks of handlePush that fail for the push of request r, as the claim
\* numbers them: 1 allowlist, 2 head_commit, 3 branch, 4 trigger gate.
FailingChecks(r) ==
  LET push == PushOf(r)
      hc == push.head_commit
  IN  {i \in 1..4 :
         CASE i = 1 -> ~repoAllowed(AllowPatterns(env.REPO_ALLOWLIST), push.repository.full_name)
           [] i = 2 -> hc = NullRec
           [] i = 3 -> push.ref # ExpectedRef(env, push)
           [] i = 4 -> hc # NullRec /\ ~hasSemver(hc.message)}

Earliest(S) == CHOOSE i \in S : \A j \in S : i <= j

CheckReason == <<"repo_not_allowed", "no_head_commit", "wrong_branch", "no_semver">>

\* C8: the skip reason is that of the earliest failing check in the order
\* allowlist, head_commit, branch, trigger gate, dedupe, and no later check
\* was evaluated.
C8_EarliestFailingCheck ==
  \A r \in Reqs :
     (Done(r) /\ req[r].resp.code = 200) =>
        IF FailingChecks(r) # {}
        THEN /\ Res(r).status = "skip"
             /\ Res(r).reason = CheckReason[Earliest(FailingChecks(r))]
             /\ req[r].evaluated = Earliest(FailingChecks(r))
             /\ req[r].did.kvget = 0
        ELSE /\ req[r].evaluated = 4
             /\ req[r].did.kvget = 1
             /\ Res(r).reason = "already_posted" <=> req[r].did.publish = 0
             /\ Res(r).reason # "already_posted" => Res(r).status = "posted"

C8_Witness ==
  \E r \in Reqs :
     /\ Done(r) /\ req[r].resp.code = 200
     /\ {1, 3} \subseteq FailingChecks(r)
     /\ Res(r).reason = "repo_not_allowed"

\* The repository name as the claim reads it: owner before the slash, name after.
SlashAt(repo) == CHOOSE i \in 1..Len(repo) : repo[i] = "/"
OwnerPart(repo) == Slice(repo, 0, SlashAt(repo) - 1)
NamePart(repo) == Slice(repo, SlashAt(repo), Len(repo))

ClaimedMatch(p, repo) ==
  IF p = <<"*">> THEN TRUE
  ELSE IF Len(p) > 2 /\ Slice(p, Len(p) - 2, Len(p)) = <<"/", "*">>
       THEN Slice(p, 0, Len(p) - 2) = OwnerPart(repo)
  ELSE IF Len(p) > 2 /\ Slice(p, 0, 2) = <<"*", "/">>
       THEN Slice(p, 2, Len(p)) = NamePart(repo)
  ELSE p = repo

\* C9: repoAllowed(repo) is true iff the allowlist is empty or one of its
\* patterns matches repo: * every repo, owner/* the repos of that owner,
\* */repo the repos of that name, owner/repo that repo, case-sensitively.
C9_RepoAllowed ==
  (call.fn = "repoAllowed" /\ call.done) =>
     call.ret = (\/ call.patterns = <<>>
                 \/ \E i \in 1..Len(call.patterns) : ClaimedMatch(call.patterns[i], call.repo))

C9_Witness ==
  /\ call.fn = "repoAllowed" /\ call.done
  /\ call.patterns = << <<"m", "y", "o", "r", "g", "/", "*">> >>
  /\ call.repo = <<"o", "t", "h", "e", "r", "/", "a", "p", "p", "1">>
  /\ call.ret = FALSE

\* The ref the claim expects: refs/heads/<BRANCH_ONLY or default_branch>.
ClaimedRef(r) ==
  RefsHeads \o (IF env.BRANCH_ONLY = <<>> THEN PushOf(r).repository.default_branch
                ELSE env.BRANCH_ONLY)

\* C10: a push that reaches the branch filter passes it iff its ref is exactly
\* refs/heads/<BRANCH_ONLY, or default_branch when BRANCH_ONLY is not set>;
\* every other ref is skipped with wrong_branch and no publish call.
C10_BranchFilter ==
  \A r \in Reqs :
     (Done(r) /\ req[r].resp.code = 200) =>
        LET reached == FailingChecks(r) \cap {1, 2} = {}
        IN  /\ reached => (Res(r).reason = "wrong_branch" <=> PushOf(r).ref # ClaimedRef(r))
            /\ ~reached => Res(r).reason # "wrong_branch"
            /\ PushOf(r).ref # ClaimedRef(r) =>
                  /\ Res(r).status = "skip"
                  /\ req[r].did.publish = 0
                  /\ req[r].did.post = 0
            /\ Res(r).reason = "wrong_branch" =>
                  /\ Res(r).ref = PushOf(r).ref
                  /\ Res(r).expected = ClaimedRef(r)

C10_Witness ==
  \E r \in Reqs :
     /\ Done(r) /\ Res(r).reason = "wrong_branch"
     /\ env.BRANCH_ONLY = BranchRel
     /\ PushOf(r).ref = RefsHeads \o BranchMain

\* The version tokens of the commit table, and the marker, as a reader of the
\* message sees them.
KnownVersions == {<<"1", ".", "2", ".", "3">>, <<"2", ".", "0", ".", "0">>}
MentionsVersion(msg) == \E v \in KnownVersions : Includes(msg, v)
MentionsPublish(msg) == Includes(ToLower(msg), AtPublish)

\* The push of request r reached the trigger gate of handlePush.
ReachedGate(r) ==
  /\ Done(r) /\ req[r].resp.code = 200
  /\ FailingChecks(r) \cap {1, 2, 3} = {}

\* C11: in the Bluesky webhook server a push that reaches the trigger gate is
\* skipped with reason no_semver iff its head commit message contains no
\* semantic version; @publish neither passes the gate alone nor is needed to
\* pass it; a no_semver skip makes no store read or write, no summarizer call
\* and no publish call.
C11_SemverOnlyGate ==
  \A r \in Reqs :
     ReachedGate(r) =>
        LET msg == PushOf(r).head_commit.message
        IN  /\ Res(r).reason = "no_semver" <=> ~MentionsVersion(msg)
            /\ (MentionsPublish(msg) /\ ~MentionsVersion(msg)) => Res(r).status = "skip"
            /\ (MentionsVersion(msg) /\ ~MentionsPublish(msg)) => req[r].did.kvget = 1
            /\ Res(r).reason = "no_semver" =>
                  /\ Res(r).status = "skip"
                  /\ req[r].did.kvget = 0
                  /\ req[r].did.ai = 0
                  /\ req[r].did.publish = 0
                  /\ req[r].did.post = 0
                  /\ req[r].did.kvset = 0
                  /\ kv = <<>>
                  /\ feed = <<>>

C11_Witness ==
  \E r \in Reqs :
     /\ ReachedGate(r)
     /\ MentionsPublish(PushOf(r).head_commit.message)
     /\ Res(r).reason = "no_semver"

\* The run logged a line with this tag.
Logged(tag) == \E i \in 1..Len(cli.out) : cli.out[i].tag = tag

\* The message of the latest commit holds neither a version nor @publish.
NeitherSignal(msg) == ~MentionsVersion(msg) /\ ~MentionsPublish(msg)

\* C12: in the command-line poster (mod.ts) a commit whose trigger gate was
\* evaluated is skipped by it iff its message contains neither a semantic
\* version nor @publish; with either signal the run goes on to the dedupe
\* check, and a skipped run exits 0 without reading the dedupe file and
\* without posting.
C12_EitherSignalPasses ==
  (cli.pc # "none" /\ cli.prog \in {ProgMod, ProgHook} /\ cli.did.gate = 1) =>
     LET msg == cli.commit.message
     IN  /\ Logged("skip_gate") <=> NeitherSignal(msg)
         /\ ~NeitherSignal(msg) => (cli.pc = "seen" \/ cli.did.seenRead = 1)
         /\ NeitherSignal(msg) =>
               /\ cli.pc = "exit" /\ cli.code = 0
               /\ cli.did.seenRead = 0
               /\ cli.did.ai = 0
               /\ cli.did.login = 0
               /\ cli.did.post = 0

C12_Witness ==
  /\ cli.pc # "none" /\ cli.prog = ProgMod /\ cli.did.gate = 1
  /\ MentionsPublish(cli.commit.message) /\ ~MentionsVersion(cli.commit.message)
  /\ cli.did.seenRead = 1
  /\ cli.did.post = 1

\* C14: scripts/bluesky-post.ts lets a commit pass its gate when the message
\* contains @publish or a semantic version: it skips at the gate iff the
\* message contains neither.
C14_ScriptEitherSignalPasses ==
  (cli.pc # "none" /\ cli.prog = ProgScript /\ cli.did.gate = 1) =>
     (Logged("skip_gate") <=> NeitherSignal(cli.commit.message))

\* The delivery of request r is a correctly signed push that passes the
\* allowlist and the branch test and has a head commit.
HandledPush(r) ==
  /\ env.GITHUB_WEBHOOK_SECRET # <<>>
  /\ SigValid(r)
  /\ req[r].d.event = EventPush
  /\ IsJson(req[r].d.raw)
  /\ repoAllowed(AllowPatterns(env.REPO_ALLOWLIST), PushOf(r).repository.full_name)
  /\ PushOf(r).head_commit # NullRec
  /\ PushOf(r).ref = ExpectedRef(env, PushOf(r))

\* C13: the Twitter webhook server tweets only for a head commit message that
\* contains @publish and a semantic version; a push whose message has @publish
\* and no version is skipped (answered 200 with status skip) and nothing is
\* published for it.
C13_TweetNeedsPublishAndSemver ==
  \A r \in Reqs :
     /\ req[r].did.publish >= 1 =>
          /\ MentionsPublish(PushOf(r).head_commit.message)
          /\ MentionsVersion(PushOf(r).head_commit.message)
     /\ (/\ req[r].pc \in {"done", "refused"}
         /\ HandledPush(r)
         /\ MentionsPublish(PushOf(r).head_commit.message)
         /\ ~MentionsVersion(PushOf(r).head_commit.message))
        => /\ req[r].pc = "done"
           /\ req[r].resp.code = 200
           /\ Res(r).status = "skip"
           /\ req[r].did.publish = 0

\* The tokens the claim names.
ClaimedVersions ==
  {<<"1", ".", "2", ".", "3">>,
   <<"v", "2", ".", "0", ".", "0", "-", "b", "e", "t", "a", ".", "1">>,
   <<"2", ".", "0", ".", "0", "+", "b", "u", "i", "l", "d", ".", "5">>}
ClaimedNonVersions ==
  {<<"1", ".", "2">>,
   <<"0", "1", ".", "2", ".", "3">>}

\* C15: hasSemver is true of a message that contains 1.2.3, v2.0.0-beta.1 or
\* 2.0.0+build.5 as a word-bounded token, wherever it stands, and false of a
\* message whose only candidate is 1.2 or 01.2.3.
C15_HasSemver ==
  (call.fn = "hasSemver" /\ call.done) =>
     /\ call.token \in ClaimedVersions => call.ret = TRUE
     /\ call.token \in ClaimedNonVersions => call.ret = FALSE

C15_Witness ==
  /\ call.fn = "hasSemver" /\ call.done
  /\ call.token = <<"0", "1", ".", "2", ".", "3">>
  /\ call.msg = <<"r", "e", "l", "e", "a", "s", "e", " ", "0", "1", ".", "2", ".", "3", " ", "n", "o", "w">>
  /\ call.ret = FALSE

\* The marker stands in the token as a word of its own: no word character
\* before the @ and none after the h.
DelimitedMarkers ==
  {<<"@", "p", "u", "b", "l", "i", "s", "h">>,
   <<"@", "P", "U", "B", "L", "I", "S", "H">>,
   <<"@", "P", "u", "b", "l", "i", "s", "h">>}
UndelimitedMarkers ==
  {<<"n", "o", "t", "p", "u", "b", "l", "i", "s", "h">>,
   <<"e", "m", "a", "i", "l", "@", "p", "u", "b", "l", "i", "s", "h", ".", "c", "o", "m">>,
   <<"@", "p", "u", "b", "l", "i", "s", "h", "i", "n", "g">>,
   <<"a", "@", "p", "u", "b", "l", "i", "s", "h">>,
   <<"_", "@", "p", "u", "b", "l", "i", "s", "h">>,
   <<"@", "p", "u", "b", "l", "i", "s", "h", "_">>,
   <<"@", "p", "u", "b", "l", "i", "s", "h", "9">>}

\* C16: hasPublishKeyword is true of a message that contains @publish, in any
\* letter case, as a delimited word, wherever it stands, and false of
\* notpublish, of an occurrence glued to a preceding word character
\* (email@publish.com) and of one followed by word characters (@publishing).
C16_HasPublishKeyword ==
  (call.fn = "hasPublishKeyword" /\ call.done) =>
     /\ call.token \in DelimitedMarkers => call.ret = TRUE
     /\ call.token \in UndelimitedMarkers => call.ret = FALSE

C16_Witness ==
  /\ call.fn = "hasPublishKeyword" /\ call.done
  /\ call.msg = <<"f", "e", "a", "t", ":", " ", "x", " ", "e", "m", "a", "i", "l", "@", "p", "u", "b", "l", "i", "s", "h", ".", "c", "o", "m">>
  /\ call.ret = FALSE

\* The limit the claim gives a call: the second argument, or 300 for fitPost
\* and 280 for fitTweet when it is left out.
ClaimedLimit ==
  IF call.max # 0 THEN call.max ELSE IF call.fn = "fitPost" THEN 300 ELSE 280

\* C17: fitPost(s, max) and fitTweet(s, max) return s when s has at most max
\* characters and otherwise the first max - 1 characters of s followed by one
\* ellipsis, max characters in all; max is 300 in the Bluesky server and 280
\* in the Twitter server.
C17_FitPost ==
  (call.fn \in {"fitPost", "fitTweet"} /\ call.done) =>
     IF Len(call.s) <= ClaimedLimit
     THEN call.ret = call.s
     ELSE /\ Len(call.ret) = ClaimedLimit
          /\ call.ret[ClaimedLimit] = "ellipsis"
          /\ \A i \in 1..(ClaimedLimit - 1) : call.ret[i] = call.s[i]

C17_Witness ==
  /\ call.fn = "fitPost" /\ call.done
  /\ call.max = 0
  /\ Len(call.s) = 301
  /\ Len(call.ret) = 300
  /\ call.ret[300] = "ellipsis"

\* C18: the text the command-line poster hands to agent.post has at most 300
\* characters.
C18_CliTextWithinLimit ==
  (cli.pc # "none" /\ cli.prog = ProgMod /\ cli.did.post = 1) =>
     Len(cli.submitted) <= 300

ReleaseMessage ==
  <<"f", "i", "x", ":", " ", "r", "e", "l", "e", "a", "s", "e", " ", "v", "1", ".", "2", ".", "3">>

\* Request r is a push of 'fix: release v1.2.3' that passed every check of
\* handlePush and found no record of its commit, with the summarizer off and
\* no allowlist, and it was answered 200.
ReleaseDelivered(r) ==
  /\ ReachedGate(r)
  /\ env.REPO_ALLOWLIST = <<>>
  /\ aiDisabled(env)
  /\ PushOf(r).head_commit.message = ReleaseMessage
  /\ Res(r).reason # "already_posted"

\* The texts request r handed to agent.post and Bluesky accepted.
PostedTexts(r) == {feed[i].text : i \in {j \in 1..Len(feed) : feed[j].by = r}}

\* C19: a valid push on the default branch whose head commit message is
\* 'fix: release v1.2.3', with the summarizer off, no allowlist and no prior
\* record, is answered posted after exactly one publish call, and the text
\* published contains v1.2.3 and does not contain the 40-character commit sha.
C19_ReleaseTextHidesSha ==
  \A r \in {1, 2} :
     ReleaseDelivered(r) =>
        /\ Res(r).status = "posted"
        /\ req[r].did.publish = 1
        /\ Cardinality(PostedTexts(r)) = 1
        /\ \A t \in PostedTexts(r) :
              /\ Includes(t, <<"v", "1", ".", "2", ".", "3">>)
              /\ ~Includes(t, PushOf(r).head_commit.id)

\* The same delivery without the condition on the sha.
ReleasePostedOnce ==
  \A r \in {1, 2} :
     ReleaseDelivered(r) =>
        /\ Res(r).status = "posted"
        /\ req[r].did.publish = 1
        /\ Cardinality(PostedTexts(r)) = 1
        /\ \A t \in PostedTexts(r) :
              /\ Includes(t, <<"v", "1", ".", "2", ".", "3">>)
              /\ Includes(t, <<"/", "c", "o", "m", "m", "i", "t", "/">> \o PushOf(r).head_commit.id)

\* C20: a failure of the summarizer never aborts the post: every webhook
\* request whose aiCondense sent its fetch goes on to the publish call and is
\* not answered with the summarizer's error, whether the fetch returned a
\* non-success response or threw.
C20_SummarizerNeverAborts ==
  \A r \in {1, 2} :
     (Done(r) /\ req[r].did.ai = 1) =>
        /\ req[r].did.publish = 1
        /\ req[r].resp.error # "fetch failed"

\* The run in progress is a dry run.
DryRun == cli.pc # "none" /\ ConfigOf(cli.prog, env).dryRun

\* The i-th line of the run's output.
LineIs(i, tag, text) ==
  i <= Len(cli.out) /\ cli.out[i].tag = tag /\ cli.out[i].text = text

\* The sha is in the dedupe file only if a post of that commit was accepted.
SeenOnlyPosted ==
  \A sha \in {ShaA, ShaB, ShaC} :
     hasSeenSha(seen, TRUE, sha) => \E i \in 1..Len(feed) : PostKey(feed[i]) = sha

\* C21: a dry run of the command-line poster makes no login and no post call
\* and does not write the dedupe file; once it composed the text it prints
\* the text, and the title, URL and description of the embed when there is
\* one, and exits 0; the dedupe file holds only commits that were posted, so
\* a later run without dry-run is not skipped as already posted because of it.
C21_DryRunHasNoEffect ==
  /\ SeenOnlyPosted
  /\ DryRun =>
       /\ cli.did.login = 0 /\ cli.did.post = 0 /\ cli.did.mark = 0
       /\ cli.submitted = Undefined
       /\ cli.pc \notin {"login", "post", "mark"}
       /\ (cli.pc = "exit" /\ cli.text # <<>>) =>
            LET n == Len(cli.out)
                embed == EmbedOf(cli.prog, cli.commit)
            IN  /\ cli.code = 0
                /\ IF embed = NullRec
                   THEN LineIs(n, "dryrun", cli.text)
                   ELSE /\ LineIs(n - 4, "dryrun", cli.text)
                        /\ LineIs(n - 2, "embed_title", embed.title)
                        /\ LineIs(n - 1, "embed_url", embed.uri)
                        /\ LineIs(n, "embed_description", embed.description)
  /\ (cli.pc # "none" /\ cli.run = 2 /\ cli.prev.kind = "previewed") =>
       ~Logged("skip_seen")

\* A run without dry-run published the commit that the run before it had
\* only previewed, with its embed.
C21_Witness ==
  /\ cli.pc = "exit" /\ cli.run = 2 /\ ~DryRun
  /\ cli.prev = [code |-> 0, kind |-> "previewed"]
  /\ EmbedOf(cli.prog, cli.commit) # NullRec
  /\ Logged("posted") /\ Len(feed) = 1

\* The sha of the run's commit was in the dedupe file when the run started.
RecordedBefore ==
  /\ cli.pc \notin {"none", "start", "git"}
  /\ cli.did.mark = 0
  /\ hasSeenSha(seen, TRUE, cli.commit.sha)

\* C22: with BLUESKY_FORCE=on dedupe still applies: a forced run on a commit
\* whose sha is already in the dedupe file makes no login and no post call.
C22_ForcedRunStillDeduped ==
  (cli.pc # "none" /\ cli.prog = ProgMod /\ ForceOn(env) /\ RecordedBefore) =>
     (cli.did.login = 0 /\ cli.did.post = 0)

\* The run read the dedupe file, the file held the sha of its commit, and
\* hasSeenSha answered false: Deno.readTextFile threw.
ReadRefused ==
  RecordedBefore /\ cli.did.seenRead = 1 /\ ~Logged("skip_seen")

\* Without the force flag a recorded commit is posted again only by a run
\* whose read of the dedupe file was refused.
UnforcedRunDeduped ==
  (cli.pc # "none" /\ ~(cli.prog = ProgMod /\ ForceOn(env)) /\ RecordedBefore
     /\ ~ReadRefused) =>
     (cli.did.login = 0 /\ cli.did.post = 0)

\* The handle or the app password the program reads is empty.
CredentialsMissing ==
  LET c == ConfigOf(cli.prog, env)
  IN  c.handle = <<>> \/ c.password = <<>>

\* C23: when the handle or the app password is empty the command-line poster
\* ends at once with exit code 1 and one error line: it does not read git,
\* evaluates no gate, calls neither the summarizer nor login nor post, and
\* the dedupe file stays as it was.
C23_MissingCredentialsFailFast ==
  (cli.pc # "none" /\ CredentialsMissing) =>
     /\ cli.pc \in {"start", "exit"}
     /\ cli.did = NoCliEffects
     /\ cli.commit = NoCommit
     /\ cli.submitted = Undefined
     /\ seen = <<>> /\ feed = <<>>
     /\ cli.pc = "exit" =>
          /\ cli.code = 1
          /\ Len(cli.out) = 1 /\ cli.out[1].tag \in {"error_config", "unexpected"}

\* A second run with a handle and no app password failed like the first.
C23_Witness ==
  /\ cli.pc = "exit" /\ cli.run = 2 /\ cli.code = 1
  /\ ConfigOf(cli.prog, env).handle = Me
  /\ ConfigOf(cli.prog, env).password = <<>>
  /\ cli.prev = [code |-> 1, kind |-> "failed"]
  /\ cli.out[1].tag = "error_config"

\* getBskyAgent of the webhook server (main.ts 93-97): with an empty
\* identifier or app password no login and no post call is made and no
\* record is written.
ServerMissingCredentials ==
  (env.BLUESKY_IDENTIFIER = <<>> \/ env.BLUESKY_APP_PASSWORD = <<>>) =>
     /\ logins = <<>> /\ feed = <<>> /\ kv = <<>>
     /\ \A r \in {1, 2} : req[r].did.login = 0 /\ req[r].did.post = 0 /\ req[r].did.kvset = 0

\* The tag of the last line the run printed.
LastTag == cli.out[Len(cli.out)].tag

\* C24: a run of the command-line poster ends with exit code 0 or 1: 0 when
\* it posted, previewed the post in a dry run or skipped the commit (no
\* trigger, already posted), 1 on a configuration error, a git failure, a
\* failed login, a failed post or an unexpected exception.
C24_ExitCodes ==
  cli.pc = "exit" =>
     /\ cli.code \in {0, 1}
     /\ Len(cli.out) >= 1
     /\ cli.code = 0 <=>
          LastTag \in {"posted", "dryrun", "embed_description", "skip_gate", "skip_seen"}
     /\ cli.code = 1 <=>
          LastTag \in {"error_config", "error_git", "error_auth", "error_post", "unexpected"}
     /\ LastTag = "posted" =>
          \E i \in 1..Len(feed) : PostKey(feed[i]) = cli.commit.sha /\ feed[i].text = cli.submitted
     /\ LastTag \in {"error_auth", "error_post"} =>
          (cli.did.login = 1 /\ cli.did.mark = 0)
     /\ LastTag = "error_auth" => cli.did.post = 0
     /\ LastTag \in {"error_config", "unexpected", "error_git"} => cli.did = NoCliEffects

\* Runs that ended in each of the ways the claim lists.
C24_Witness ==
  /\ cli.pc = "exit" /\ cli.run = 2
  /\ cli.prev = [code |-> 0, kind |-> "skipped"]
  /\ LastTag = "error_auth" /\ cli.code = 1

\* The posts Bluesky accepted from request r.
PostsBy(r) == {i \in 1..Len(feed) : feed[i].by = r}

\* What holds of the publish invocation of every request at every moment.
PublishBounded ==
  \A r \in Reqs :
     /\ req[r].did.publish <= 1
     /\ req[r].did.attempts <= 2
     /\ req[r].did.login <= req[r].did.attempts
     /\ req[r].did.post <= req[r].did.attempts
     /\ req[r].did.publish = 0 => req[r].did.attempts = 0
     /\ InPublish(r) => req[r].attempt = req[r].did.attempts - 1
     /\ Cardinality(PostsBy(r)) <= 1
     /\ (Done(r) /\ req[r].did.publish = 1) =>
          \/ /\ Res(r).status = "posted"
             /\ \E i \in PostsBy(r) : Res(r).postUri = feed[i].uri
          \/ /\ req[r].resp.code = 500
             /\ req[r].did.attempts = 2
             /\ PostsBy(r) = {}

\* Two webhook requests that may be in flight at once.
NextPair ==
  \/ \E r \in {1, 2} : Receive(r)
  \/ \E r \in {1, 2} : Route(r)
  \/ \E r \in {1, 2} : RouteResume(r)
  \/ \E r \in {1, 2} : KvGet(r)
  \/ \E r \in {1, 2} : Condense(r)
  \/ LoginSettle
  \/ \E r \in {1, 2} : LoginResume(r)
  \/ \E r \in {1, 2} : Catch(r)
  \/ \E r \in {1, 2} : PostOk(r)
  \/ \E r \in {1, 2} : PostFail(r)
  \/ \E r \in {1, 2} : KvSet(r)

\* The event loop runs every continuation that is ready, and every login and
\* post call is answered.
SpecLive ==
  /\ Init /\ [][NextPair]_vars
  /\ WF_vars(LoginSettle)
  /\ WF_vars(\E r \in {1, 2} : LoginResume(r) \/ Catch(r) \/ PostOk(r) \/ PostFail(r))

\* C25: blueskyPostStatus makes at most two attempts, each with at most one
\* login and one post call; it returns the URI of the first post that
\* succeeded, throws only after the second attempt failed, and every
\* invocation ends.
C25_PublishRetriesOnce ==
  /\ []PublishBounded
  /\ \A r \in {1, 2} : InPublish(r) ~> ~InPublish(r)

\* A request whose first attempt failed at the post call and whose second
\* attempt logged in again and posted.
C25_Witness ==
  \E r \in Reqs :
     /\ Done(r) /\ Res(r).status = "posted"
     /\ req[r].did.attempts = 2
     /\ req[r].did.post = 2
     /\ req[r].did.login = 1

\* C26: after a run of the command-line poster that published the commit and
\* exited 0, a later run on the same HEAD finds the sha in the dedupe file:
\* it makes no login and no post call and ends as skipped (unless git or the
\* environment fails first).
C26_RerunPublishesAtMostOnce ==
  (cli.pc # "none" /\ cli.run >= 2 /\ cli.prev = [code |-> 0, kind |-> "published"]) =>
     /\ cli.did.login = 0
     /\ cli.did.post = 0
     /\ cli.pc = "exit" => LastTag \in {"skip_seen", "skip_gate", "unexpected", "error_git"}

\* The same with the force flag unset and the sha written by markSeenSha.
RerunSkipsRecorded ==
  (/\ cli.pc # "none" /\ cli.run >= 2 /\ cli.prev = [code |-> 0, kind |-> "published"]
   /\ ~(cli.prog = ProgMod /\ ForceOn(env))
   /\ hasSeenSha(seen, TRUE, cli.commit.sha) /\ cli.did.mark = 0
   /\ ~ReadRefused) =>
     /\ cli.did.login = 0
     /\ cli.did.post = 0
     /\ cli.pc = "exit" => LastTag \in {"skip_seen", "skip_gate", "unexpected", "error_git"}

\* The keys the lines of the .env file txt assign, in file order (<<>> for a
\* line that assigns nothing).
DotenvAssigned(txt) ==
  LET lines == Split(txt, "\n")
  IN  [i \in 1..Len(lines) |->
         LET line == Trim(lines[i])
             eq == IndexOf(line, "=")
         IN  IF line = <<>> \/ StartsWith(line, <<"#">>) \/ eq <= 0 THEN <<>>
             ELSE DotenvKey(line, eq)]

\* C27: loadDotenv never changes a variable that is already set in the
\* process environment (a variable set to the empty string included), and
\* every variable it adds was unset before and is assigned by a line of .env.
C27_DotenvKeepsSetVariables ==
  (call.fn = "loadDotenv" /\ call.done) =>
     /\ \A k \in DOMAIN call.before :
          k \in DOMAIN call.after /\ call.after[k] = call.before[k]
     /\ \A k \in DOMAIN call.after \ DOMAIN call.before :
          /\ call.txt # Null
          /\ call.canSet
          /\ \E i \in DOMAIN DotenvAssigned(call.txt) : DotenvAssigned(call.txt)[i] = k

\* A call with a .env that assigns A and B while A is already set to "0" and
\* B is unset: A keeps "0" and B becomes "2".
C27_Witness ==
  /\ call.fn = "loadDotenv"
  /\ call.done
  /\ call.txt = <<"A", "=", "1", "\n", "B", "=", "2">>
  /\ DOMAIN call.before = {<<"A">>}
  /\ call.before[<<"A">>] = <<"0">>
  /\ DOMAIN call.after = {<<"A">>, <<"B">>}
  /\ call.after[<<"A">>] = <<"0">>
  /\ call.after[<<"B">>] = <<"2">>

\* The values loadDotenv gives to unset variables: the first assignment of
\* the file wins, "export " and surrounding quotes are removed.
DotenvSuppliesUnset ==
  (/\ call.fn = "loadDotenv" /\ call.done /\ call.canSet
   /\ call.before = <<>>
   /\ call.txt = <<"e", "x", "p", "o", "r", "t", " ", "A", "=", "3", "\n",
                   "A", "=", "dquote", "q", " ", "dquote">>)
  => call.after = EnvSet(<<>>, <<"A">>, <<"3">>)

\* The run was asked to install: the loop over Deno.args ended without
\* Deno.exit (no --help, no unknown argument, no empty --hook=).
InstallRequested == call.fn = "install" /\ call.pc # "args" /\ call.why \notin {"help", "args"}

\* C28: when the target hook file exists and --force is not given the
\* installer exits with code 1 and the file is as it was; a hook file that
\* existed when the run started is only ever changed by a run with --force,
\* and then only the target.
C28_ExistingHookNeedsForce ==
  call.fn = "install" =>
     /\ (/\ call.pc = "exit"
         /\ InstallRequested
         /\ ~call.force
         /\ pathExists(call.before, call.hookName))
        => /\ call.code = 1
           /\ call.files = call.before
     /\ \A p \in DOMAIN call.before :
          /\ p \in DOMAIN call.files
          /\ call.files[p] # call.before[p] => (call.force /\ p = call.hookName)

\* A second run without --force that stopped at the hook its first run had
\* installed.
C28_Witness ==
  /\ call.fn = "install"
  /\ call.run = 2
  /\ call.pc = "exit"
  /\ call.why = "exists"
  /\ call.code = 1
  /\ call.args = <<>>
  /\ call.files = call.before
  /\ call.files[hookNameDefault].script = HookScript(call.prog)

\* With --force the user's hook is replaced by the installer's script.
ForceOverwrites ==
  /\ call.fn = "install"
  /\ call.pc = "exit"
  /\ call.code = 0
  /\ call.force
  /\ pathExists(call.before, call.hookName)
  /\ call.before[call.hookName] = UserHook
  /\ call.files[call.hookName].script = HookScript(call.prog)

\* A run that only prints the help exits with code 0 and changes nothing.
HelpExitsZero ==
  (call.fn = "install" /\ call.why = "help") =>
     call.code = 0 /\ call.files = call.before

\* Request r takes a step in which its login or its post fails: the catch of
\* getBskyAgent, or the catch of blueskyPostStatus.
FailureStep(r) ==
  /\ req'[r] # req[r]
  /\ \/ req[r].pc = "login" /\ logins[req[r].waitOn] = "fail"
     \/ req[r].pc = "catch"
     \/ req[r].pc = "post" /\ req'[r].pc # "kvset"

\* Request r starts an attempt of blueskyPostStatus in this step.
AttemptStarts(r) == req'[r].did.attempts = req[r].did.attempts + 1

\* After the step agentInit is null or a login this step started.
FreshOrNull ==
  \/ agentInit' = 0
  \/ agentInit' = Len(logins) + 1 /\ Len(logins') = Len(logins) + 1
                                  /\ logins'[agentInit'] = "pending"

\* A rejected login promise stays in agentInit only until the first request
\* that awaits it resumes.
RejectedPromiseDropped ==
  (agentInit # 0 /\ logins[agentInit] = "fail") =>
     /\ \E r \in Reqs : req[r].waitOn = agentInit
     /\ \A r \in Reqs : req[r].waitOn = agentInit => req[r].pc = "login"

\* Request r reaches `await agentInit` in this step (main.ts 105).
AwaitStarts(r) == req[r].pc # "login" /\ req'[r].pc = "login"

\* The promise request r starts to await in this step is not one that has
\* been rejected already.
NoRejectedPromiseHandedOn ==
  \A r \in Reqs : AwaitStarts(r) => logins'[req'[r].waitOn] # "fail"

SessionSteps ==
  \A r \in Reqs :
     /\ FailureStep(r) => bskyAgent' = 0 /\ FreshOrNull
     /\ (FailureStep(r) /\ AttemptStarts(r)
           /\ env.BLUESKY_IDENTIFIER # <<>> /\ env.BLUESKY_APP_PASSWORD # <<>>)
        => /\ req'[r].pc = "login"
           /\ req'[r].waitOn = agentInit'
           /\ agentInit' # 0
     /\ (req[r].pc = "post" /\ req'[r].pc = "kvset")
        => bskyAgent' = bskyAgent /\ agentInit' = agentInit
     /\ (AttemptStarts(r) /\ bskyAgent # 0 /\ ~FailureStep(r))
        => /\ req'[r].pc = "post"
           /\ req'[r].agent = bskyAgent
           /\ req'[r].did.login = req[r].did.login
           /\ logins' = logins
           /\ bskyAgent' = bskyAgent

\* What holds of the session: every failed login and every failed post leaves
\* bskyAgent null and agentInit null or the fresh login of the retry that
\* follows in the same step; a rejected promise does not stay in agentInit
\* once a request has caught its rejection; a successful post leaves the
\* session alone and a request that finds an agent posts with it without a
\* login.
SessionInvalidatedOnCatch ==
  /\ []RejectedPromiseDropped
  /\ [][SessionSteps]_vars

\* C29: the session is invalidated on any error (SessionSteps), and no
\* request is ever handed a login promise that has already been rejected.
C29_RejectedPromiseNeverHandedOn ==
  [][SessionSteps /\ NoRejectedPromiseHandedOn]_vars

\* A request posted with the agent another request had logged in, without a
\* login of its own, after an earlier request's login had failed and been
\* replaced by a fresh one.
AgentReusedAfterFailure ==
  /\ \E p \in 1..Len(logins) : logins[p] = "fail"
  /\ \E r \in Reqs :
       /\ req[r].pc = "kvset"
       /\ req[r].did.login = 0
       /\ req[r].waitOn = 0
       /\ bskyAgent # 0
       /\ req[r].agent = bskyAgent

\* The login promises whose agent.login has not settled.
PendingLogins == {p \in 1..Len(logins) : logins[p] = "pending"}

\* C30: at most one login is in flight, and every request that waits for a
\* pending login waits for the one in agentInit.
C30_SingleLoginInFlight ==
  /\ Cardinality(PendingLogins) <= 1
  /\ \A r \in Reqs :
       (req[r].pc = "login" /\ req[r].waitOn \in PendingLogins) => req[r].waitOn = agentInit

\* Until a login or a post has failed the requests do share one login.
SharedUntilFailure ==
  (/\ \A p \in 1..Len(logins) : logins[p] # "fail"
   /\ \A r \in Reqs : req[r].did.attempts <= 1)
  => C30_SingleLoginInFlight

\* Two requests shared a login that failed and each started a login of its
\* own in its retry.
TwoRetryLogins ==
  /\ Len(logins) > 2
  /\ logins[1] = "fail"
  /\ \E r1, r2 \in Reqs :
       /\ r1 # r2
       /\ req[r1].pc = "login" /\ req[r2].pc = "login"
       /\ req[r1].attempt = 1 /\ req[r2].attempt = 1
       /\ req[r1].waitOn # req[r2].waitOn
       /\ {req[r1].waitOn, req[r2].waitOn} \subseteq PendingLogins

\* Request r was answered posted.
Posted(r) == Done(r) /\ Res(r).status = "posted"

\* The part of C31 that holds with the race of C1: at every answer posted or
\* already_posted the key has a record with the URI of a post made for it
\* and a timestamp, and the URI in the answer is the URI of a post made for
\* that key.
AnswerNamesPost ==
  \A r \in Reqs :
     (Posted(r) \/ (Done(r) /\ Res(r).reason = "already_posted")) =>
        /\ ReqKey(req[r]) \in DOMAIN kv
        /\ kv[ReqKey(req[r])].postedAt \in 1..(clock - 1)
        /\ \E i \in PostsFor(ReqKey(req[r])) : feed[i].uri = Res(r).postUri

\* C31: once handlePush has answered posted, the store holds under the key
\* of the request a record with the URI that answer carries and a
\* timestamp, and every already_posted answer for that key carries that URI.
C31_PostedRecordHoldsUri ==
  \A r \in Reqs :
     Posted(r) =>
        /\ ReqKey(req[r]) \in DOMAIN kv
        /\ kv[ReqKey(req[r])].postUri = Res(r).postUri
        /\ kv[ReqKey(req[r])].postedAt \in 1..(clock - 1)
        /\ \A q \in Reqs :
             (Done(q) /\ Res(q).reason = "already_posted" /\ ReqKey(req[q]) = ReqKey(req[r]))
                => Res(q).postUri = Res(r).postUri

\* Two requests for one key were both answered posted, with different URIs;
\* the record holds the second one.
TwoAnswersPosted ==
  \E r, q \in Reqs :
     /\ r # q
     /\ Posted(r) /\ Posted(q)
     /\ ReqKey(req[r]) = ReqKey(req[q])
     /\ Res(r).postUri # Res(q).postUri
     /\ kv[ReqKey(req[r])].postUri = Res(q).postUri

\* The URI of the first post the feed has for key k.
FirstUriFor(k) ==
  feed[CHOOSE i \in PostsFor(k) : \A j \in PostsFor(k) : i <= j].uri

\* Every record holds the URI of the first post made for its key.
StoredIsFirstPublish ==
  \A k \in DOMAIN kv : PostsFor(k) # {} /\ kv[k].postUri = FirstUriFor(k)

\* No step deletes a record or changes one.
RecordsKept ==
  \A k \in DOMAIN kv : k \in DOMAIN kv' /\ kv'[k] = kv[k]

\* C32: a record, once written, is never deleted or overwritten, and its
\* postUri is the URI of the first successful publish for its key.
C32_RecordNeverOverwritten ==
  /\ []StoredIsFirstPublish
  /\ [][RecordsKept]_vars

\* No step deletes a record: the store only grows or has a value replaced.
RecordsNeverDeleted == [][\A k \in DOMAIN kv : k \in DOMAIN kv']_vars

\* A record holds the URI of the second post of its key.
RecordOfSecondPublish ==
  \E k \in DOMAIN kv : Cardinality(PostsFor(k)) = 2 /\ kv[k].postUri # FirstUriFor(k)

SkipReasons ==
  {"repo_not_allowed", "no_head_commit", "wrong_branch", "no_semver", "already_posted"}

\* Request r was answered with a skip.
Skipped(r) == Done(r) /\ req[r].resp.code = 200 /\ Res(r).status = "skip"

\* C33: a request answered with a skip made no summarizer call, no login,
\* no publish call and no store write, and its reason is one of the five;
\* only an already_posted skip read the store.
C33_SkipHasNoSideEffects ==
  \A r \in Reqs :
     Skipped(r) =>
        /\ Res(r).reason \in SkipReasons
        /\ req[r].did.ai = 0
        /\ req[r].did.publish = 0
        /\ req[r].did.attempts = 0
        /\ req[r].did.login = 0
        /\ req[r].did.post = 0
        /\ req[r].did.kvset = 0
        /\ req[r].did.kvget = IF Res(r).reason = "already_posted" THEN 1 ELSE 0
        /\ \A i \in 1..Len(feed) : feed[i].by # r

\* A redelivery skipped as already_posted while the summarizer is
\* configured, after the first delivery had used it.
C33_Witness ==
  /\ ~aiDisabled(env)
  /\ Skipped(2)
  /\ Res(2).reason = "already_posted"
  /\ req[1].did.ai = 1
  /\ req[2].did.kvget = 1
  /\ req[2].did.ai = 0

\* C34: with GITHUB_WEBHOOK_SECRET empty every request to /webhook is
\* answered 500 "Missing secret" and nothing else happens in it: no
\* signature verification, no parsing, no store access, no publish; the
\* store and the feed stay empty.
C34_EmptySecretRejectsAll ==
  env.GITHUB_WEBHOOK_SECRET = <<>> =>
     /\ \A r \in Reqs :
          /\ req[r].pc \in {"idle", "recv", "done"}
          /\ req[r].did = NoEffects
          /\ Done(r) => /\ req[r].resp.code = 500
                        /\ req[r].resp.text = "Missing secret"
                        /\ req[r].resp.error = ""
     /\ kv = <<>>
     /\ feed = <<>>
     /\ logins = <<>>

\* A push of a release commit whose signature header is the HMAC of the body
\* under the empty key was answered 500.
C34_Witness ==
  /\ env.GITHUB_WEBHOOK_SECRET = <<>>
  /\ \E r \in Reqs :
       /\ Done(r)
       /\ req[r].d.event = EventPush
       /\ req[r].d.sig = SignedBy(<<>>, req[r].d.raw)
       /\ IsJson(req[r].d.raw)
       /\ PreChecks(env, PushOf(r)).pass
       /\ req[r].resp.code = 500

\* The hexadecimal part of the header of the call and the digest it is
\* compared with.
TheirHex == Slice(call.sig, Len(Sha256Prefix), Len(call.sig))
OursHex == hmacSha256Hex(env.GITHUB_WEBHOOK_SECRET, call.raw)

\* The 1-based positions at which the two values differ.
Mismatches == {i \in 1..Len(OursHex) : TheirHex[i] # OursHex[i]}

\* C35: when the header passes the prefix and the length check, the loop
\* compares every position of the two values, whether and wherever they
\* differ, and the call accepts exactly when no position differs; before
\* the length check passes nothing is compared.
C35_ComparisonVisitsEveryPosition ==
  (call.fn = "verifyGitHubSignature" /\ call.done) =>
     IF call.sig # Null /\ StartsWith(call.sig, Sha256Prefix) /\ Len(TheirHex) = Len(OursHex)
     THEN /\ call.compared = Len(OursHex)
          /\ call.ret = (Mismatches = {})
     ELSE call.compared = 0 /\ call.ret = FALSE

\* A header of the right length that differs from the digest in its first
\* position only: all positions were compared.
C35_Witness ==
  /\ call.fn = "verifyGitHubSignature" /\ call.done
  /\ call.sig # Null
  /\ StartsWith(call.sig, Sha256Prefix)
  /\ Len(TheirHex) = Len(OursHex)
  /\ Mismatches = {1}
  /\ call.compared = Len(OursHex)
  /\ call.compared > 1
  /\ call.ret = FALSE

\* The answer of the last hasSeenSha call is true exactly when the file can
\* be read and one of the lines it was written with, trimmed, is the sha.
SeenIffLine ==
  (call.fn = "dedupe" /\ call.done) =>
     (call.ret <=> /\ call.readable
                   /\ \E i \in 1..Len(call.lines) : Trim(call.lines[i]) = call.asked)

\* A step that writes the file leaves every sha in it that was in it.
SeenStaysSeen ==
  (call.fn = "dedupe" /\ seen' # seen) =>
     /\ Len(seen') > Len(seen)
     /\ Slice(seen', 0, Len(seen)) = seen
     /\ \A sha \in {ShaA, ShaB, ShaC} : hasSeenSha(seen, TRUE, sha) => hasSeenSha(seen', TRUE, sha)

\* C36: hasSeenSha(sha) is true iff some line of the dedupe file, trimmed, is
\* sha (never for a file that cannot be read), and markSeenSha only appends:
\* a sha that was seen before it is seen after it.
C36_FileDedupe ==
  /\ []SeenIffLine
  /\ [][SeenStaysSeen]_vars

\* After an append to a file that held ShaA with a carriage return and a
\* line with only the first seven characters of it, ShaA is still seen.
C36_Witness ==
  /\ call.fn = "dedupe" /\ call.done
  /\ call.readable
  /\ call.marks = 1
  /\ Len(call.lines) = 3
  /\ call.lines[1] = ShaA \o <<"\r">>
  /\ call.lines[2] = shortSha(ShaA)
  /\ call.lines[3] = ShaC
  /\ call.asked = ShaA
  /\ call.ret = TRUE

\* The first line of a commit message as the claim reads it: the text before
\* the first newline, trimmed.
TextBeforeNewline(msg) ==
  Trim(IF IndexOf(msg, "\n") = -1 THEN msg ELSE Slice(msg, 0, IndexOf(msg, "\n")))

\* The text of the lines after the first one, trimmed.
TextAfterNewline(msg) ==
  IF IndexOf(msg, "\n") = -1 THEN <<>>
  ELSE Trim(Slice(msg, IndexOf(msg, "\n") + 1, Len(msg)))

\* The published text holds nothing of the later lines of the message.
NoLaterLines(text, msg) ==
  TextAfterNewline(msg) = <<>> \/ ~Includes(text, TextAfterNewline(msg))

\* The posts of the Bluesky server: with the summarizer off every published
\* text starts with the first line of the commit message, trimmed, and holds
\* no text of its later lines.
ServerOnlyFirstLinePosted ==
  aiDisabled(env) =>
     \A i \in 1..Len(feed) :
        LET msg == PushOf(feed[i].by).head_commit.message
        IN  /\ StartsWith(feed[i].text, TextBeforeNewline(msg) \o <<" ", "emdash">>)
            /\ NoLaterLines(feed[i].text, msg)

\* A post of the server for a commit message of several lines, made with the
\* summarizer off.
ServerMultiLinePosted ==
  /\ aiDisabled(env)
  /\ \E i \in 1..Len(feed) :
       LET msg == PushOf(feed[i].by).head_commit.message
       IN  /\ TextAfterNewline(msg) # <<>>
           /\ StartsWith(feed[i].text, TextBeforeNewline(msg) \o <<" ", "emdash">>)

\* C37: in every program the text the post is built from is the text before
\* the first newline of the commit message, trimmed, and holds nothing of the
\* later lines.
C37_FirstLineInEveryVariant ==
  (call.fn = "firstLine" /\ call.done) =>
     /\ call.ret = TextBeforeNewline(call.msg)
     /\ NoLaterLines(call.ret, call.msg)

\* The same of every program but the Twitter server.
FirstLineOutsideTwitter ==
  (call.fn = "firstLine" /\ call.done /\ call.prog # "twitter") =>
     /\ call.ret = TextBeforeNewline(call.msg)
     /\ NoLaterLines(call.ret, call.msg)

\* The Twitter server's expression kept the later lines of a message.
TwitterKeepsLaterLines ==
  /\ call.fn = "firstLine"
  /\ call.done
  /\ call.prog = "twitter"
  /\ TextAfterNewline(call.msg) # <<>>
  /\ Includes(call.ret, TextAfterNewline(call.msg))

\* The command-line posters with the summarizer off: the composed text holds
\* nothing of the later lines of the commit message.
CliOnlyFirstLine ==
  (cli.pc # "none" /\ (cli.prog = ProgScript \/ aiDisabledCli(env)) /\ cli.text # <<>>) =>
     NoLaterLines(cli.text, cli.commit.message)

\* A multi-line commit message was composed by a command-line poster.
CliMultiLineComposed ==
  /\ cli.pc # "none"
  /\ cli.prog = ProgMod
  /\ aiDisabledCli(env)
  /\ cli.text # <<>>
  /\ TextAfterNewline(cli.commit.message) # <<>>


\* The first line of a message after stripCommitHashes: hash-like words gone,
\* white space collapsed, trimmed.
StrippedFirstLine(msg) == stripCommitHashes(TextBeforeNewline(msg))

\* C38: with the summarizer off every post of the server starts with the first
\* line of the commit message from which each word of 7 to 40 hexadecimal
\* characters was removed, white space collapsed and the ends trimmed.
C38_HashesStrippedBeforeCompose ==
  aiDisabled(env) =>
     \A i \in 1..Len(feed) :
        StartsWith(feed[i].text,
                   StrippedFirstLine(PushOf(feed[i].by).head_commit.message)
                      \o <<" ", "emdash">>)

\* A post of the server that still holds the hash of the first line.
ServerPostHoldsHash ==
  \E i \in 1..Len(feed) :
     /\ StrippedFirstLine(PushOf(feed[i].by).head_commit.message)
           # TextBeforeNewline(PushOf(feed[i].by).head_commit.message)
     /\ StartsWith(feed[i].text,
                   TextBeforeNewline(PushOf(feed[i].by).head_commit.message))

\* The command-line composer of part_001 condenses the stripped first line.
CliHashesStripped ==
  (cli.pc \notin {"none", "compose"} /\ cli.prog = ProgMod /\ aiDisabledCli(env)
     /\ cli.text # <<>>) =>
     StartsWith(cli.text, Slice(StrippedFirstLine(cli.commit.message), 0, 20))

\* The command-line composer composed a first line that held a hash.
CliHashComposed ==
  /\ cli.pc \notin {"none", "compose"}
  /\ cli.prog = ProgMod
  /\ aiDisabledCli(env)
  /\ cli.text # <<>>
  /\ StrippedFirstLine(cli.commit.message) # TextBeforeNewline(cli.commit.message)


\* A run of part_001 that took the force branch of shouldPost and has ended.
ForcedRunEnded ==
  cli.pc = "exit" /\ cli.prog = ProgMod /\ ForceOn(env) /\ Logged("force")

\* C39: a run with BLUESKY_FORCE=on passes the trigger gates whatever the
\* commit message and ends having logged the would-post preview of its text,
\* whatever BLUESKY_DRYRUN is.
C39_ForcedRunShowsPreview ==
  ForcedRunEnded =>
     /\ cli.did.gate = 0
     /\ ~Logged("skip_gate")
     /\ \E i \in 1..Len(cli.out) :
          cli.out[i].tag = "dryrun" /\ cli.out[i].text = cli.text

\* A forced run without BLUESKY_DRYRUN published its text and logged no preview.
ForcedRunPostedUnseen ==
  /\ ForcedRunEnded
  /\ ~cli.config.dryRun
  /\ cli.did.post = 1
  /\ Logged("posted")
  /\ ~Logged("dryrun")

\* With BLUESKY_DRYRUN=on as well, a forced run passes the gates and ends with
\* the preview of its text.
ForcedDryRunShowsPreview ==
  (ForcedRunEnded /\ cli.config.dryRun) =>
     /\ cli.did.gate = 0
     /\ cli.did.login = 0
     /\ \E i \in 1..Len(cli.out) :
          cli.out[i].tag = "dryrun" /\ cli.out[i].text = cli.text

\* A forced dry run of a commit that names neither a version nor @publish.
ForcedDryRunOfPlainCommit ==
  /\ ForcedRunEnded
  /\ cli.config.dryRun
  /\ NeitherSignal(cli.commit.message)
  /\ Logged("dryrun")

====
